---------------------------- MODULE Spec2Model ----------------------------
(***************************************************************************)
(* A model of JsonCPP::Value (src/jsoncpp/except.cc, which holds value.cc, *)
(* and src/jsoncpp/utils.cc, which holds utils.cc and value.h).            *)
(*                                                                         *)
(* Integer widths are scaled: the 32-bit types have Bits32 bits and the    *)
(* 64-bit types 2*Bits32 bits, a double keeps DoubleMant significant bits  *)
(* (more than a 32-bit, fewer than a 64-bit integer, as 53 is to 32 and    *)
(* 64) and a float FloatMant bits (fewer than a 32-bit integer, as 24 is   *)
(* to 32).  Every conversion wraps, rounds and compares at these widths    *)
(* the way the C++ types do at theirs.  The decimal formatter of utils.cc  *)
(* is modelled at its true width of 64 bits, on numbers held as four       *)
(* 16-bit limbs.                                                           *)
(***************************************************************************)
EXTENDS Integers, Sequences, FiniteSets, TLC

VARIABLES
    a, b,   \* the objects under test: Values, Keys in SpecKey
    heap,   \* the addresses of the live blocks of the free store
    made,   \* how the objects were built
    call,   \* the last call and its argument
    ret     \* what the last call returned or raised

vars == <<a, b, heap, made, call, ret>>

---------------------------------------------------------------------------
(* Bounds of the model *)

\* bits of the scaled int32_t / uint32_t
Bits32 == 3

\* longest byte string given to a string constructor
MaxStrLen == 2

\* largest precision given to valueToString(double, ...), and the most
\* digits after the separator the formatter is taken to print
MaxPrecision == 2

Bits64 == 2 * Bits32

DoubleMant == Bits64 - 2

FloatMant == Bits32 - 1

\* byte values strings are made of: the terminator, a small byte and one
\* above 127 (memcmp compares bytes as unsigned char)
Bytes == {0, 1, 255}

---------------------------------------------------------------------------
(* Fixed-width integers *)

Pow2(n) == 2 ^ n

\* uint64_t(x)
ToU64(x) == x % Pow2(Bits64)

\* int64_t(u) of a 64-bit pattern
AsS64(u) == IF u >= Pow2(Bits64 - 1) THEN u - Pow2(Bits64) ELSE u

\* uint32_t(x)
ToU32(x) == x % Pow2(Bits32)

\* int32_t(x)
ToS32(x) == LET u == x % Pow2(Bits32)
            IN  IF u >= Pow2(Bits32 - 1) THEN u - Pow2(Bits32) ELSE u

Int32 == (0 - Pow2(Bits32 - 1)) .. (Pow2(Bits32 - 1) - 1)
UInt32 == 0 .. (Pow2(Bits32) - 1)
Int64 == (0 - Pow2(Bits64 - 1)) .. (Pow2(Bits64 - 1) - 1)
UInt64 == 0 .. (Pow2(Bits64) - 1)

\* value.h: the limits, each with the type the header declares it with
minInt64 == AsS64(ToU64(Pow2(Bits64 - 1)))
maxInt64 == AsS64(ToU64(Pow2(Bits64 - 1) - 1))
\* declared int64_t, initialised with uint64_t(-1)
maxUInt64 == AsS64(ToU64(0 - 1))
minInt == ToS32(Pow2(Bits32 - 1))
maxInt == ToS32(Pow2(Bits32 - 1) - 1)
\* declared int32_t, initialised with uint32_t(-1)
maxUInt == ToS32(ToU32(0 - 1))

---------------------------------------------------------------------------
(* Floating point.  A double is NaN, an infinity, or a finite number held  *)
(* as a count h of halves (the number is h/2) with at most DoubleMant      *)
(* significant bits.                                                       *)

Abs(x) == IF x < 0 THEN 0 - x ELSE x

RECURSIVE BitLen(_)
BitLen(n) == IF n = 0 THEN 0 ELSE 1 + BitLen(n \div 2)

\* round n to p significant bits, to nearest, ties to even
RoundBits(p, n) ==
    LET m == Abs(n)
        e == BitLen(m) - p
    IN  IF e <= 0 THEN n
        ELSE LET q == m \div Pow2(e)
                 r == m % Pow2(e)
                 half == Pow2(e - 1)
                 up == r > half \/ (r = half /\ q % 2 = 1)
                 k == (IF up THEN q + 1 ELSE q) * Pow2(e)
             IN  IF n < 0 THEN 0 - k ELSE k

NaN == [cls |-> "nan", h |-> 0]
PosInf == [cls |-> "pinf", h |-> 0]
NegInf == [cls |-> "ninf", h |-> 0]
Fin(h) == [cls |-> "fin", h |-> h]

\* static_cast<double>(n) of an integer n
ToDouble(n) == Fin(RoundBits(DoubleMant, 2 * n))

\* static_cast<float>(d), widened back to double
ToFloat(d) == IF d.cls = "fin" THEN Fin(RoundBits(FloatMant, d.h)) ELSE d

\* the largest magnitude of the finite doubles the model constructs: 2^65
MaxHalves == 2 * Pow2(Bits64 + 1)

FiniteDoubles == {Fin(h) : h \in {x \in (0 - MaxHalves) .. MaxHalves :
                                     RoundBits(DoubleMant, x) = x}}

Doubles == FiniteDoubles \cup {NaN, PosInf, NegInf}

\* position of a non-NaN double on the extended real line
Key(d) == CASE d.cls = "ninf" -> 0 - (MaxHalves + 1)
            [] d.cls = "pinf" -> MaxHalves + 1
            [] OTHER -> d.h

\* the comparisons of double: every comparison with NaN is false
DLe(x, y) == x.cls # "nan" /\ y.cls # "nan" /\ Key(x) <= Key(y)
DLt(x, y) == x.cls # "nan" /\ y.cls # "nan" /\ Key(x) < Key(y)
DGe(x, y) == DLe(y, x)
DEq(x, y) == x.cls # "nan" /\ y.cls # "nan" /\ Key(x) = Key(y)

\* int64_t(d) and the narrower casts of an in-range double: toward zero
Trunc(d) == IF d.h >= 0 THEN d.h \div 2 ELSE 0 - ((0 - d.h) \div 2)

\* except.cc: integerToDouble(uint64_t)
integerToDoubleU(value) ==
    LET hi == ToDouble(AsS64(value \div 2))
        lo == ToDouble(AsS64(value % 2))
    IN  Fin(RoundBits(DoubleMant, hi.h * 2 + lo.h))

\* except.cc: integerToDouble<T>, T a signed integer type
integerToDouble(value) == ToDouble(value)

\* except.cc: InRange<T, U>, both limits of signed type
InRange(d, min, max) ==
    DGe(d, integerToDouble(min)) /\ DLe(d, integerToDouble(max))

\* except.cc: IsIntegral: modf(d, &ip) == 0.0 (modf of an infinity is 0)
IsIntegral(d) == CASE d.cls = "nan" -> FALSE
                   [] d.cls = "fin" -> d.h % 2 = 0
                   [] OTHER -> TRUE

\* value.h: maxUInt64AsDouble: the literal 18446744073709551615.0 is 2^64
maxUInt64AsDouble == ToDouble(Pow2(Bits64) - 1)

---------------------------------------------------------------------------
(* Results of a call *)

Ok(v) == [kind |-> "ok", val |-> v]

\* JSON_ASSERT / JSON_ASSERT_MESSAGE failing: throwLogicError
LogicError == [kind |-> "LogicError", val |-> 0]

\* a call that returns nothing has returned
Done == [kind |-> "done", val |-> 0]

\* undefined behaviour: the outcomes a build can produce
UB(outs) == [kind |-> "UB", val |-> outs]

\* a call whose result the model leaves to its environment
OneOf(outs) == [kind |-> "oneof", val |-> outs]

Outcomes(r) == IF r.kind \in {"UB", "oneof"} THEN r.val ELSE {r}

---------------------------------------------------------------------------
(* ValueType, utils.cc (value.h) lines 103-112 *)

nullValue == 0
intValue == 1
uintValue == 2
realValue == 3
stringValue == 4
boolValue == 5
arrayValue == 6
objectValue == 7

ValueTypes == nullValue .. objectValue

---------------------------------------------------------------------------
(* String payloads.  A char* is null or points at bytes in memory: mem is  *)
(* what lies at the pointer, terminator included; an allocated payload is  *)
(* preceded by its length, len.                                            *)

NullPtr == [null |-> TRUE, len |-> 0, mem |-> <<>>]

\* a caller's C string holding the bytes s, terminated
CStr(s) == [null |-> FALSE, len |-> 0, mem |-> s \o <<0>>]

strlen(mem) == (CHOOSE i \in 1 .. Len(mem) :
                    mem[i] = 0 /\ \A j \in 1 .. (i - 1) : mem[j] # 0) - 1

ByteStrings == UNION {[1 .. n -> Bytes] : n \in 0 .. MaxStrLen}

\* byte strings without a zero byte: what a C string literal usually holds
TextStrings == UNION {[1 .. n -> Bytes \ {0}] : n \in 0 .. MaxStrLen}

\* except.cc line 76: unsigned(Value::maxInt) - sizeof(unsigned) - 1U at the
\* true width of int
maxPrefixedLength == 2147483642

\* except.cc line 61: static_cast<size_t>(Value::maxInt) at the true width
\* of int (the lengths of strings are not scaled)
maxIntLength == 2147483647

\* duplicateStringValue, lines 61-63: the number of bytes it copies
duplicatedLength(length) ==
    IF length >= maxIntLength THEN maxIntLength - 1 ELSE length

\* duplicateStringValue: the new buffer, length bytes of value and a zero
duplicateStringValue(value, length) ==
    SubSeq(value, 1, duplicatedLength(length)) \o <<0>>

\* duplicateAndPrefixStringValue, line 76: the length it stores, or the
\* failed assertion
prefixedLength(length) ==
    IF ~(length <= maxPrefixedLength) THEN LogicError ELSE Ok(length)

duplicateAndPrefixStringValue(value, length) ==
    LET n == prefixedLength(length)
    IN  IF n.kind # "ok" THEN n
        ELSE Ok([null |-> FALSE, len |-> n.val,
                 mem |-> SubSeq(value, 1, n.val) \o <<0>>])

\* a variant that reads the length field of a string that has no prefix
decodePrefixedString_AlwaysPrefixed(isPrefixed, prefixed) ==
    [length |-> prefixed.len, value |-> prefixed.mem]

\* a variant that measures every string with strlen
decodePrefixedString_AlwaysStrlen(isPrefixed, prefixed) ==
    [length |-> strlen(prefixed.mem), value |-> prefixed.mem]

\* <<length, value>> of a payload
decodePrefixedString(isPrefixed, prefixed) ==
    IF ~isPrefixed
    THEN [length |-> strlen(prefixed.mem), value |-> prefixed.mem]
    ELSE [length |-> prefixed.len, value |-> prefixed.mem]

\* memcmp(x, y, n): the sign of the first differing byte pair, bytes unsigned
RECURSIVE memcmpFrom(_, _, _, _)
memcmpFrom(x, y, n, i) ==
    IF i > n THEN 0
    ELSE IF x[i] < y[i] THEN 0 - 1
    ELSE IF x[i] > y[i] THEN 1
    ELSE memcmpFrom(x, y, n, i + 1)

memcmp(x, y, n) == memcmpFrom(x, y, n, 1)

Min(x, y) == IF x < y THEN x ELSE y

---------------------------------------------------------------------------
(* Value: the tag, the allocated bit and the payload union.  v_int and     *)
(* v_uint are two readings of the same 64 bits, held in v_uint.            *)

\* Comments(): m_ptr holds no array
NoComments == [null |-> TRUE, slots |-> <<>>]

\* m_bits, m_value (v_ptr is the address v_string or v_map holds when it
\* points at a block of the free store, 0 when it does not), m_comments,
\* m_start and m_limit
initBasic(type, allocated) ==
    [type |-> type, allocated |-> allocated, v_uint |-> 0, v_real |-> Fin(0),
     v_bool |-> FALSE, v_string |-> NullPtr, v_map |-> <<>>, v_ptr |-> 0,
     comments |-> NoComments, start |-> 0, limit |-> 0]

\* the Value owns the block its pointer refers to: releasePayload frees it
OwnsPayload(v) ==
    \/ (v.type = stringValue /\ v.allocated)
    \/ v.type \in {arrayValue, objectValue}

\* a block of the free store that is not live
NewBlock(live) == CHOOSE n \in 1 .. (Cardinality(live) + 1) : n \notin live

\* the Value, its payload placed in the block at addr when it owns one
Placed(v, addr) == IF OwnsPayload(v) THEN [v EXCEPT !.v_ptr = addr] ELSE v

\* the live blocks after releasePayload
releasePayload(v, live) == IF OwnsPayload(v) THEN live \ {v.v_ptr} ELSE live

v_int(v) == AsS64(v.v_uint)

isAllocated(v) == v.allocated

\* Value(ValueType type)
ValueOfType(type) ==
    CASE type = nullValue -> Ok(initBasic(type, FALSE))
      [] type \in {intValue, uintValue} ->
            Ok([initBasic(type, FALSE) EXCEPT !.v_uint = ToU64(0)])
      [] type = realValue -> Ok([initBasic(type, FALSE) EXCEPT !.v_real = Fin(0)])
      [] type = stringValue ->
            Ok([initBasic(type, FALSE) EXCEPT !.v_string = CStr(<<>>)])
      [] type \in {arrayValue, objectValue} ->
            Ok([initBasic(type, FALSE) EXCEPT !.v_map = <<>>])
      [] type = boolValue -> Ok([initBasic(type, FALSE) EXCEPT !.v_bool = FALSE])
      [] OTHER -> LogicError

\* Value(int32_t value)
ValueOfInt32(value) == Ok([initBasic(intValue, FALSE) EXCEPT !.v_uint = ToU64(value)])

\* Value(uint32_t value)
ValueOfUInt32(value) == Ok([initBasic(uintValue, FALSE) EXCEPT !.v_uint = ToU64(value)])

\* Value(int64_t value)
ValueOfInt64(value) == Ok([initBasic(intValue, FALSE) EXCEPT !.v_uint = ToU64(value)])

\* Value(uint64_t value)
ValueOfUInt64(value) == Ok([initBasic(uintValue, FALSE) EXCEPT !.v_uint = ToU64(value)])

\* Value(double value)
ValueOfDouble(value) == Ok([initBasic(realValue, FALSE) EXCEPT !.v_real = value])

\* Value(const char* value)
ValueOfCString(value) ==
    IF value.null THEN LogicError
    ELSE LET dup == duplicateAndPrefixStringValue(value.mem, strlen(value.mem))
         IN  IF dup.kind # "ok" THEN dup
             ELSE Ok([initBasic(stringValue, TRUE) EXCEPT !.v_string = dup.val])

\* Value(const char* begin, const char* end): the bytes of [begin, end)
ValueOfRange(bytes) ==
    LET dup == duplicateAndPrefixStringValue(bytes, Len(bytes))
    IN  IF dup.kind # "ok" THEN dup
        ELSE Ok([initBasic(stringValue, TRUE) EXCEPT !.v_string = dup.val])

\* Value(const StaticString& value): the pointer is kept, nothing is copied
ValueOfStatic(value) == Ok([initBasic(stringValue, FALSE) EXCEPT !.v_string = value])

\* Value(const std::string& value)
ValueOfStdString(bytes) ==
    LET dup == duplicateAndPrefixStringValue(bytes, Len(bytes))
    IN  IF dup.kind # "ok" THEN dup
        ELSE Ok([initBasic(stringValue, TRUE) EXCEPT !.v_string = dup.val])

\* Value(bool value)
ValueOfBool(value) == Ok([initBasic(boolValue, FALSE) EXCEPT !.v_bool = value])

type(v) == v.type

---------------------------------------------------------------------------
(* Text: a std::string of characters, each its code *)

Ord == ("0" :> 48) @@ ("1" :> 49) @@ ("2" :> 50) @@ ("3" :> 51) @@ ("4" :> 52)
       @@ ("5" :> 53) @@ ("6" :> 54) @@ ("7" :> 55) @@ ("8" :> 56) @@ ("9" :> 57)
       @@ ("-" :> 45) @@ ("+" :> 43) @@ ("." :> 46) @@ ("," :> 44) @@ ("e" :> 101)
       @@ ("N" :> 78) @@ ("a" :> 97) @@ ("I" :> 73) @@ ("n" :> 110) @@ ("f" :> 102)
       @@ ("i" :> 105) @@ ("t" :> 116) @@ ("y" :> 121) @@ ("u" :> 117)
       @@ ("l" :> 108) @@ ("r" :> 114) @@ ("s" :> 115)

Text(s) == [i \in 1 .. Len(s) |-> Ord[s[i]]]

\* std::string(const char*): the characters before the first zero
StringOfCStr(mem) == SubSeq(mem, 1, strlen(mem))

---------------------------------------------------------------------------
(* 64-bit arithmetic at true width: a uint64_t is four 16-bit limbs, the   *)
(* most significant first.                                                 *)

LimbBase == Pow2(16)

Limb0 == <<0, 0, 0, 0>>

\* x + y mod 2^64, and the carry out
RECURSIVE addFrom(_, _, _, _, _)
addFrom(x, y, i, carry, acc) ==
    IF i = 0 THEN [sum |-> acc, carry |-> carry]
    ELSE LET t == x[i] + y[i] + carry
         IN  addFrom(x, y, i - 1, t \div LimbBase, <<t % LimbBase>> \o acc)

Add64(x, y) == addFrom(x, y, Len(x), 0, <<>>)

\* uint64_t(-value), uint64_t(~value + 1)
Neg64(x) == Add64([i \in 1 .. Len(x) |-> (LimbBase - 1) - x[i]], <<0, 0, 0, 1>>).sum

\* value / 10 and value % 10
RECURSIVE divFrom(_, _, _, _)
divFrom(x, i, rem, q) ==
    IF i > Len(x) THEN [q |-> q, r |-> rem]
    ELSE LET cur == rem * LimbBase + x[i]
         IN  divFrom(x, i + 1, cur % 10, Append(q, cur \div 10))

Div10(x) == divFrom(x, 1, 0, <<>>).q
Mod10(x) == divFrom(x, 1, 0, <<>>).r

\* the 64-bit pattern of a small integer n, sign-extended
Limbs(n) == IF n >= 0 THEN <<0, 0, 0, n>> ELSE Neg64(<<0, 0, 0, 0 - n>>)

\* value.h at true width: Value::minInt64 and Value::maxInt64
minInt64Limbs == <<Pow2(15), 0, 0, 0>>
maxInt64Limbs == <<Pow2(15) - 1, LimbBase - 1, LimbBase - 1, LimbBase - 1>>

IsNegative64(x) == x[1] >= Pow2(15)

---------------------------------------------------------------------------
(* utils.cc: valueToString of integers.  The buffer is filled back to      *)
(* front: current is the offset of the write position from the start of    *)
(* the buffer, text the characters from there to the end of the buffer.    *)

\* char buffer[3 * 64 / 8 + 1]
bufferSize == ((3 * 64) \div 8) + 1

\* *--current = c
Put(st, c) == [current |-> st.current - 1, text |-> <<c>> \o st.text]

RECURSIVE uintDigits(_, _)
uintDigits(value, st) ==
    LET qr == divFrom(value, 1, 0, <<>>)
        st1 == Put(st, qr.r + Ord["0"])
    IN  IF qr.q # Limb0 THEN uintDigits(qr.q, st1) ELSE st1

uintToString(value, st) == uintDigits(value, Put(st, 0))

\* JSON_ASSERT(current >= buffer); return current.  A write before the
\* start of the buffer has already happened when the assertion fails.
ReturnBuffer(st) ==
    IF st.current >= 0 THEN Ok(StringOfCStr(st.text))
    ELSE UB({LogicError, [kind |-> "crash", val |-> 0]})

\* a variant that prints a negative value's bit pattern
valueToStringInt64_NoNegate(value) ==
    LET start == [current |-> bufferSize, text |-> <<>>]
    IN  IF IsNegative64(value)
        THEN ReturnBuffer(Put(uintToString(value, start), Ord["-"]))
        ELSE ReturnBuffer(uintToString(value, start))

\* valueToString(int64_t value)
valueToStringInt64(value) ==
    LET start == [current |-> bufferSize, text |-> <<>>]
    IN  IF value = minInt64Limbs
        THEN ReturnBuffer(Put(uintToString(
                 Add64(maxInt64Limbs, <<0, 0, 0, 1>>).sum, start), Ord["-"]))
        ELSE IF IsNegative64(value)
        THEN ReturnBuffer(Put(uintToString(Neg64(value), start), Ord["-"]))
        ELSE ReturnBuffer(uintToString(value, start))

\* valueToString(uint64_t value)
valueToStringUInt64(value) ==
    ReturnBuffer(uintToString(value, [current |-> bufferSize, text |-> <<>>]))

\* valueToString(int32_t value): int64_t(value)
valueToStringInt32(value) ==
    valueToStringInt64(IF value[1] >= Pow2(15)
                       THEN <<LimbBase - 1, LimbBase - 1>> \o value
                       ELSE <<0, 0>> \o value)

\* valueToString(uint32_t value): uint64_t(value)
valueToStringUInt32(value) == valueToStringUInt64(<<0, 0>> \o value)

\* valueToString(bool value)
valueToStringBool(value) ==
    IF value THEN Ok(Text(<<"t", "r", "u", "e">>))
    ELSE Ok(Text(<<"f", "a", "l", "s", "e">>))

---------------------------------------------------------------------------
(* utils.cc: valueToString of doubles *)

significantDigits == 0
decimalPlaces == 1

\* value.h: Value::defaultRealPrecision
defaultRealPrecision == 17

\* the decimal digits of a natural number
RECURSIVE DigitsOf(_)
DigitsOf(n) ==
    IF n < 10 THEN <<Ord["0"] + n>>
    ELSE DigitsOf(n \div 10) \o <<Ord["0"] + (n % 10)>>

Zeros(n) == [i \in 1 .. n |-> Ord["0"]]

\* s without its trailing '0' characters
RECURSIVE StripZeros(_)
StripZeros(s) ==
    IF Len(s) > 0 /\ s[Len(s)] = Ord["0"] THEN StripZeros(SubSeq(s, 1, Len(s) - 1))
    ELSE s

\* the decimal separator of the C locale in force
Separators == {Ord["."], Ord[","]}

SignOf(value) == IF value.h < 0 THEN <<Ord["-"]>> ELSE <<>>

\* n / scale rounded to an integer, to nearest, ties to even
RoundDiv(n, scale) ==
    LET q == n \div scale
        r == n % scale
    IN  IF 2 * r > scale \/ (2 * r = scale /\ q % 2 = 1) THEN q + 1 ELSE q

\* snprintf("%.*f", precision, value) of the finite double h/2: the integer
\* part, and when precision is not 0 the separator and precision digits
FixedOutputs(value, precision) ==
    LET m == Abs(value.h)
    IN  IF precision = 0
        THEN {SignOf(value) \o DigitsOf(RoundDiv(m, 2))}
        ELSE {SignOf(value) \o DigitsOf(m \div 2) \o <<sep>>
                  \o <<Ord["0"] + 5 * (m % 2)>> \o Zeros(precision - 1) :
              sep \in Separators}

\* snprintf("%.*g", precision, value) of the finite double h/2: P = max(1,
\* precision) significant digits, rounded; plain when P > X >= -4 for the
\* decimal exponent X of the rounded number and with an exponent otherwise;
\* trailing zeros of the fraction, and a bare separator, are dropped
GeneralOutputs(value, precision) ==
    LET m == Abs(value.h)
        P == IF precision = 0 THEN 1 ELSE precision
        \* the significant digits of the number, as an integer, and its exponent
        N == IF m % 2 = 1 THEN (m \div 2) * 10 + 5 ELSE m \div 2
        L == Len(DigitsOf(N))
        X == IF m \div 2 = 0 THEN 0 - 1 ELSE Len(DigitsOf(m \div 2)) - 1
        q == IF P >= L THEN N ELSE RoundDiv(N, 10 ^ (L - P))
        carried == P < L /\ q = 10 ^ P
        D == DigitsOf(IF carried THEN q \div 10 ELSE q)
        X1 == IF carried THEN X + 1 ELSE X
        withFrac(head, frac) ==
            IF Len(frac) = 0 THEN {SignOf(value) \o head}
            ELSE {SignOf(value) \o head \o <<sep>> \o frac : sep \in Separators}
    IN  IF m = 0 THEN {<<Ord["0"]>>}
        ELSE IF P > X1 /\ X1 >= 0 - 4
        THEN (IF X1 < 0
              THEN withFrac(<<Ord["0"]>>, StripZeros(D))
              ELSE LET padded == D \o Zeros((X1 + 1) - Len(D))
                   IN  withFrac(SubSeq(padded, 1, X1 + 1),
                                StripZeros(SubSeq(padded, X1 + 2, Len(padded)))))
        ELSE {t \o <<Ord["e"], Ord["+"]>> \o
                  (IF X1 < 10 THEN <<Ord["0"]>> ELSE <<>>) \o DigitsOf(X1) :
              t \in withFrac(SubSeq(D, 1, 1), StripZeros(SubSeq(D, 2, Len(D))))}

\* std::snprintf(&*buffer.begin(), buffer.size(), "%.*g" or "%.*f",
\* precision, value), in a buffer grown until the text fits
snprintf(value, precision, precisionType) ==
    IF precisionType = significantDigits
    THEN GeneralOutputs(value, precision)
    ELSE FixedOutputs(value, precision)

\* utils.h: fixNumericLocale: the buffer with ',' changed to '.'
fixNumericLocale(buffer) ==
    [i \in 1 .. Len(buffer) |-> IF buffer[i] = Ord[","] THEN Ord["."] ELSE buffer[i]]

\* utils.h: fixZerosInTheEnd on [begin, end) of buffer, begin at offset 0:
\* the offset of the new end
RECURSIVE fixZerosInTheEnd(_, _, _)
fixZerosInTheEnd(buffer, end, precision) ==
    IF end = 0 THEN end
    ELSE IF buffer[end] # Ord["0"] THEN end
    ELSE IF 0 # end - 1 /\ 0 # end - 2 /\ buffer[end - 1] = Ord["."]
         THEN (IF precision # 0 THEN end ELSE end - 2)
    ELSE fixZerosInTheEnd(buffer, end - 1, precision)

Contains(buffer, c) == \E i \in 1 .. Len(buffer) : buffer[i] = c

\* what follows snprintf in valueToString(double, bool, unsigned, PrecisionType)
FinishDouble(printed, precision, precisionType) ==
    LET fixed == fixNumericLocale(printed)
        dotted == IF ~Contains(fixed, Ord["."]) /\ ~Contains(fixed, Ord["e"])
                  THEN fixed \o Text(<<".", "0">>)
                  ELSE fixed
    IN  IF precisionType = decimalPlaces
        THEN SubSeq(dotted, 1, fixZerosInTheEnd(dotted, Len(dotted), precision))
        ELSE dotted

\* reps[useSpecialFloats ? 0 : 1][isnan(value) ? 0 : (value < 0) ? 1 : 2]
reps(useSpecialFloats, value) ==
    IF useSpecialFloats
    THEN (CASE value.cls = "nan" -> Text(<<"N", "a", "N">>)
            [] value.cls = "ninf" ->
                 Text(<<"-", "I", "n", "f", "i", "n", "i", "t", "y">>)
            [] OTHER -> Text(<<"I", "n", "f", "i", "n", "i", "t", "y">>))
    ELSE (CASE value.cls = "nan" -> Text(<<"n", "u", "l", "l">>)
            [] value.cls = "ninf" ->
                 Text(<<"-", "1", "e", "+", "9", "9", "9", "9">>)
            [] OTHER -> Text(<<"1", "e", "+", "9", "9", "9", "9">>))

\* valueToString(double value, bool useSpecialFloats, unsigned precision,
\*               PrecisionType precisionType)
valueToStringDouble4(value, useSpecialFloats, precision, precisionType) ==
    IF value.cls # "fin" THEN Ok(reps(useSpecialFloats, value))
    ELSE OneOf({Ok(FinishDouble(printed, precision, precisionType)) :
                   printed \in snprintf(value, precision, precisionType)})

\* a variant that asks for the special tokens
valueToStringDouble3_Special(value, precision, precisionType) ==
    valueToStringDouble4(value, TRUE, precision, precisionType)

\* valueToString(double value, unsigned precision, PrecisionType precisionType)
valueToStringDouble3(value, precision, precisionType) ==
    valueToStringDouble4(value, FALSE, precision, precisionType)

---------------------------------------------------------------------------
(* except.cc: Value::CZString, the key of the member map.  A key is        *)
(* [cstr, policy, length]: the pointer m_cstr and the union of m_index     *)
(* and m_storage, held as the two bit-fields of m_storage.                 *)

\* enum DuplicationPolicy
noDuplication == 0
duplicate == 1
duplicateOnCopy == 2

Policies == {noDuplication, duplicate, duplicateOnCopy}

\* 0x3fffffff + 1: StringStorage::length has 30 bits
lengthLimit == 1073741824

\* a char const* of a key: null, or the address of a buffer and its bytes
NullKeyPtr == [null |-> TRUE, addr |-> 0, mem |-> <<>>]

KeyPtr(addr, bytes) == [null |-> FALSE, addr |-> addr, mem |-> bytes]

\* the union of m_index and m_storage, read as m_index: policy is the first
\* bit-field and takes the two low bits, length the thirty above them
m_index(k) == k.policy + 4 * k.length

\* CZString(uint32_t index)
CZStringOfIndex(index) ==
    [cstr |-> NullKeyPtr, policy |-> index % 4, length |-> index \div 4]

\* CZString(char const* str, unsigned length, DuplicationPolicy allocate)
CZStringOf(str, length, allocate) ==
    [cstr |-> str, policy |-> allocate % 4, length |-> length % lengthLimit]

\* CZString(CZString const& other); addr is the block new char[] returns
CZStringCopy(other, addr) ==
    [cstr |-> IF other.policy # noDuplication /\ ~other.cstr.null
              THEN KeyPtr(addr, duplicateStringValue(other.cstr.mem, other.length))
              ELSE other.cstr,
     policy |-> IF ~other.cstr.null
                THEN (IF other.policy = noDuplication THEN noDuplication
                      ELSE duplicate)
                ELSE other.policy % 4,
     length |-> other.length]

\* CZString(CZString&& other): <<the new key, other afterwards>>
CZStringMove(other) == <<other, [other EXCEPT !.cstr = NullKeyPtr]>>

\* operator=(const CZString& other): m_cstr and m_index are copied
CZStringAssign(this, other) == other

\* operator=(CZString&& other): <<this, other>> afterwards
CZStringMoveAssign(this, other) == <<other, [other EXCEPT !.cstr = NullKeyPtr]>>

\* ~CZString deletes the buffer
CZStringDeletes(k) == ~k.cstr.null /\ k.policy = duplicate

\* CZString::operator<; JSON_ASSERT(m_cstr && other.m_cstr) may fail
CZStringLess(x, y) ==
    IF x.cstr.null THEN Ok(m_index(x) < m_index(y))
    ELSE IF y.cstr.null THEN LogicError
    ELSE LET min_len == Min(x.length, y.length)
             cmp == memcmp(x.cstr.mem, y.cstr.mem, min_len)
         IN  IF cmp < 0 THEN Ok(TRUE) ELSE Ok(FALSE)

\* CZString::operator==
CZStringEq(x, y) ==
    IF x.cstr.null THEN Ok(m_index(x) = m_index(y))
    ELSE IF x.length # y.length THEN Ok(FALSE)
    ELSE IF y.cstr.null THEN LogicError
    ELSE Ok(memcmp(x.cstr.mem, y.cstr.mem, x.length) = 0)

\* CZString::index, data, length, isStaticString
CZStringIndex(k) == m_index(k)
CZStringData(k) == k.cstr
CZStringLength(k) == k.length
isStaticString(k) == k.policy = noDuplication

---------------------------------------------------------------------------
(* except.cc: comparison *)

RECURSIVE Less(_, _)
RECURSIVE mapLessFrom(_, _, _)

\* std::map's operator<: lexicographical_compare of the (key, value) pairs
mapLessFrom(x, y, i) ==
    IF i > Len(y) THEN FALSE
    ELSE IF i > Len(x) THEN TRUE
    ELSE LET pairLess(p, q) ==
                 \/ CZStringLess(p.key, q.key) = Ok(TRUE)
                 \/ (CZStringLess(q.key, p.key) # Ok(TRUE)
                       /\ Less(p.value, q.value))
         IN  IF pairLess(x[i], y[i]) THEN TRUE
             ELSE IF pairLess(y[i], x[i]) THEN FALSE
             ELSE mapLessFrom(x, y, i + 1)

\* a variant without the tie-break on length
stringLess_NoTieBreak(this, other) ==
    IF this.v_string.null \/ other.v_string.null THEN ~other.v_string.null
    ELSE LET t == decodePrefixedString(isAllocated(this), this.v_string)
             o == decodePrefixedString(isAllocated(other), other.v_string)
             min_len == Min(t.length, o.length)
         IN  memcmp(t.value, o.value, min_len) < 0

\* the stringValue case of operator<
stringLess(this, other) ==
    IF this.v_string.null \/ other.v_string.null THEN ~other.v_string.null
    ELSE LET t == decodePrefixedString(isAllocated(this), this.v_string)
             o == decodePrefixedString(isAllocated(other), other.v_string)
             min_len == Min(t.length, o.length)
             comp == memcmp(t.value, o.value, min_len)
         IN  IF comp < 0 THEN TRUE
             ELSE IF comp > 0 THEN FALSE
             ELSE t.length < o.length

\* Value::operator<
Less(this, other) ==
    LET typeDelta == type(this) - type(other)
    IN  IF typeDelta # 0 THEN typeDelta < 0
        ELSE CASE type(this) = nullValue -> FALSE
               [] type(this) = intValue -> v_int(this) < v_int(other)
               [] type(this) = uintValue -> this.v_uint < other.v_uint
               [] type(this) = realValue -> DLt(this.v_real, other.v_real)
               [] type(this) = boolValue -> ~this.v_bool /\ other.v_bool
               [] type(this) = stringValue -> stringLess(this, other)
               [] type(this) \in {arrayValue, objectValue} ->
                     IF Len(this.v_map) # Len(other.v_map)
                     THEN Len(this.v_map) < Len(other.v_map)
                     ELSE mapLessFrom(this.v_map, other.v_map, 1)

\* Value::operator>
Greater(this, other) == Less(other, this)

\* Value::operator<=
LessEq(this, other) == ~Less(other, this)

\* Value::operator>=
GreaterEq(this, other) == ~Less(this, other)

\* a variant that compares the payloads for equality
Equal_ByContent(this, other) ==
    IF type(this) # type(other) THEN FALSE
    ELSE CASE type(this) = nullValue -> TRUE
           [] type(this) = intValue -> v_int(this) = v_int(other)
           [] type(this) = uintValue -> this.v_uint = other.v_uint
           [] type(this) = realValue -> DEq(this.v_real, other.v_real)
           [] type(this) = boolValue -> this.v_bool = other.v_bool
           [] OTHER -> ~Less(this, other) /\ ~Less(other, this)

\* Value::operator==
Equal(this, other) ==
    IF type(this) # type(other) THEN FALSE
    ELSE CASE type(this) = nullValue -> TRUE
           [] type(this) = intValue -> v_int(this) < v_int(other)
           [] type(this) = uintValue -> this.v_uint < other.v_uint
           [] type(this) = realValue -> DLt(this.v_real, other.v_real)
           [] type(this) = boolValue -> ~this.v_bool /\ other.v_bool
           [] type(this) = stringValue ->
                 IF this.v_string.null \/ other.v_string.null
                 THEN ~other.v_string.null
                 ELSE LET t == decodePrefixedString(isAllocated(this), this.v_string)
                          o == decodePrefixedString(isAllocated(other), other.v_string)
                          min_len == Min(t.length, o.length)
                          comp == memcmp(t.value, o.value, min_len)
                      IN  IF comp < 0 THEN TRUE
                          ELSE IF comp > 0 THEN FALSE
                          ELSE t.length < o.length
           [] type(this) \in {arrayValue, objectValue} ->
                 IF Len(this.v_map) # Len(other.v_map)
                 THEN Len(this.v_map) < Len(other.v_map)
                 ELSE mapLessFrom(this.v_map, other.v_map, 1)

\* Value::operator!=
NotEqual(this, other) == ~Equal(this, other)

\* Value::compare
compare(this, other) ==
    IF Less(this, other) THEN 0 - 1
    ELSE IF Greater(this, other) THEN 1
    ELSE 0

---------------------------------------------------------------------------
(* except.cc: the range-aware predicates *)

\* a variant that takes a real in range for an int, whole or not
isInt_AnyReal(v) ==
    CASE type(v) = intValue -> v_int(v) >= minInt /\ v_int(v) <= maxInt
      [] type(v) = uintValue -> v.v_uint <= ToU32(maxInt)
      [] type(v) = realValue ->
            /\ DGe(v.v_real, ToDouble(minInt))
            /\ DLe(v.v_real, ToDouble(maxInt))
      [] OTHER -> FALSE

\* Value::isInt
isInt(v) ==
    CASE type(v) = intValue -> v_int(v) >= minInt /\ v_int(v) <= maxInt
      [] type(v) = uintValue -> v.v_uint <= ToU32(maxInt)
      [] type(v) = realValue ->
            /\ DGe(v.v_real, ToDouble(minInt))
            /\ DLe(v.v_real, ToDouble(maxInt))
            /\ IsIntegral(v.v_real)
      [] OTHER -> FALSE

\* Value::isInt64: the uintValue case reads v_int and compares it, converted
\* to uint64_t, with uint64_t(maxInt64)
isInt64(v) ==
    CASE type(v) = intValue -> TRUE
      [] type(v) = uintValue -> ToU64(v_int(v)) <= ToU64(maxInt64)
      [] type(v) = realValue ->
            /\ DGe(v.v_real, ToDouble(minInt64))
            /\ DLt(v.v_real, ToDouble(maxInt64))
            /\ IsIntegral(v.v_real)
      [] OTHER -> FALSE

\* Value::isUInt: maxUInt is an int32_t; it is converted to uint64_t in the
\* integer cases and to double in the real case
isUInt(v) ==
    CASE type(v) = intValue -> v_int(v) >= 0 /\ ToU64(v_int(v)) <= ToU64(maxUInt)
      [] type(v) = uintValue -> v.v_uint <= ToU64(maxUInt)
      [] type(v) = realValue ->
            /\ DGe(v.v_real, ToDouble(0))
            /\ DLe(v.v_real, ToDouble(maxUInt))
            /\ IsIntegral(v.v_real)
      [] OTHER -> FALSE

\* Value::isUInt64
isUInt64(v) ==
    CASE type(v) = intValue -> v_int(v) >= 0
      [] type(v) = uintValue -> TRUE
      [] type(v) = realValue ->
            /\ DGe(v.v_real, ToDouble(0))
            /\ DLe(v.v_real, maxUInt64AsDouble)
            /\ IsIntegral(v.v_real)
      [] OTHER -> FALSE

\* Value::isIntegral
isIntegral(v) ==
    CASE type(v) \in {intValue, uintValue} -> TRUE
      [] type(v) = realValue ->
            /\ DGe(v.v_real, ToDouble(0))
            /\ DLe(v.v_real, maxUInt64AsDouble)
            /\ IsIntegral(v.v_real)
      [] OTHER -> FALSE

\* Value::isDouble
isDouble(v) == type(v) \in {intValue, uintValue, realValue}

\* Value::isNumeric
isNumeric(v) == isDouble(v)

---------------------------------------------------------------------------
(* except.cc: the accessors.  Each yields Ok(value), LogicError, or the    *)
(* outcomes of undefined behaviour.                                        *)

\* Value::asCString: the pointer returned
asCString(v) ==
    IF type(v) # stringValue THEN LogicError
    ELSE IF v.v_string.null THEN Ok(NullPtr)
    ELSE Ok([null |-> FALSE, len |-> 0,
             mem |-> decodePrefixedString(isAllocated(v), v.v_string).value])

\* Value::asString.  With a null payload the function returns nullptr as a
\* std::string: std::string(const char*) on a null pointer is undefined
\* (libstdc++ throws std::logic_error, other libraries read through it).
asString(v) ==
    CASE type(v) = nullValue -> Ok(<<>>)
      [] type(v) = stringValue ->
            IF v.v_string.null
            THEN UB({[kind |-> "std::logic_error", val |-> 0],
                     [kind |-> "crash", val |-> 0]})
            ELSE LET d == decodePrefixedString(isAllocated(v), v.v_string)
                 IN  Ok(SubSeq(d.value, 1, d.length))
      [] type(v) = boolValue -> valueToStringBool(v.v_bool)
      [] type(v) = intValue -> valueToStringInt64(Limbs(v_int(v)))
      [] type(v) = uintValue -> valueToStringUInt64(Limbs(v.v_uint))
      [] type(v) = realValue ->
            valueToStringDouble3(v.v_real, defaultRealPrecision, significantDigits)
      [] OTHER -> LogicError

\* Value::getCStringLength
getCStringLength(v) ==
    IF type(v) # stringValue THEN LogicError
    ELSE IF v.v_string.null THEN Ok(0)
    ELSE Ok(decodePrefixedString(isAllocated(v), v.v_string).length)

\* Value::asInt
asInt(v) ==
    CASE type(v) = intValue -> IF ~isInt(v) THEN LogicError ELSE Ok(ToS32(v_int(v)))
      [] type(v) = uintValue -> IF ~isInt(v) THEN LogicError ELSE Ok(ToS32(v.v_uint))
      [] type(v) = realValue ->
            IF ~InRange(v.v_real, minInt, maxInt) THEN LogicError
            ELSE Ok(ToS32(Trunc(v.v_real)))
      [] type(v) = nullValue -> Ok(0)
      [] type(v) = boolValue -> Ok(IF v.v_bool THEN 1 ELSE 0)
      [] OTHER -> LogicError

\* a variant without the bool case
asUInt_NoBool(v) ==
    CASE type(v) = intValue -> IF ~isUInt(v) THEN LogicError ELSE Ok(ToU32(v_int(v)))
      [] type(v) = uintValue -> IF ~isUInt(v) THEN LogicError ELSE Ok(ToU32(v.v_uint))
      [] type(v) = realValue ->
            IF ~InRange(v.v_real, 0, maxUInt) THEN LogicError
            ELSE Ok(ToU32(Trunc(v.v_real)))
      [] type(v) = nullValue -> Ok(0)
      [] OTHER -> LogicError

\* Value::asUInt
asUInt(v) ==
    CASE type(v) = intValue -> IF ~isUInt(v) THEN LogicError ELSE Ok(ToU32(v_int(v)))
      [] type(v) = uintValue -> IF ~isUInt(v) THEN LogicError ELSE Ok(ToU32(v.v_uint))
      [] type(v) = realValue ->
            IF ~InRange(v.v_real, 0, maxUInt) THEN LogicError
            ELSE Ok(ToU32(Trunc(v.v_real)))
      [] type(v) = nullValue -> Ok(0)
      [] type(v) = boolValue -> Ok(IF v.v_bool THEN 1 ELSE 0)
      [] OTHER -> LogicError

\* Value::asInt64.  double(maxInt64) is 2^63, so InRange lets 2^63 through
\* and int64_t(2^63) is undefined: builds yield either end of the range.
asInt64(v) ==
    CASE type(v) = intValue -> Ok(v_int(v))
      [] type(v) = uintValue -> IF ~isInt64(v) THEN LogicError ELSE Ok(AsS64(v.v_uint))
      [] type(v) = realValue ->
            IF ~InRange(v.v_real, minInt64, maxInt64) THEN LogicError
            ELSE IF Trunc(v.v_real) \in Int64 THEN Ok(Trunc(v.v_real))
            ELSE UB({Ok(minInt64), Ok(maxInt64)})
      [] type(v) = nullValue -> Ok(0)
      [] type(v) = boolValue -> Ok(IF v.v_bool THEN 1 ELSE 0)
      [] OTHER -> LogicError

\* Value::asUInt64
asUInt64(v) ==
    CASE type(v) = intValue -> IF ~isUInt64(v) THEN LogicError ELSE Ok(ToU64(v_int(v)))
      [] type(v) = uintValue -> Ok(v.v_uint)
      [] type(v) = realValue ->
            IF ~InRange(v.v_real, 0, maxUInt64) THEN LogicError
            ELSE Ok(ToU64(Trunc(v.v_real)))
      [] type(v) = nullValue -> Ok(0)
      [] type(v) = boolValue -> Ok(IF v.v_bool THEN 1 ELSE 0)
      [] OTHER -> LogicError

\* Value::asLargestInt
asLargestInt(v) == asInt64(v)

\* Value::asLargestUInt
asLargestUInt(v) == asUInt64(v)

\* Value::asFloat
asFloat(v) ==
    CASE type(v) = intValue -> Ok(Fin(RoundBits(FloatMant, 2 * v_int(v))))
      [] type(v) = uintValue -> Ok(ToFloat(integerToDoubleU(v.v_uint)))
      [] type(v) = realValue -> Ok(ToFloat(v.v_real))
      [] type(v) = nullValue -> Ok(Fin(0))
      [] type(v) = boolValue -> Ok(IF v.v_bool THEN ToDouble(1) ELSE ToDouble(0))
      [] OTHER -> LogicError

\* Value::asDouble: the uintValue case casts to float
asDouble(v) ==
    CASE type(v) = intValue -> Ok(ToDouble(v_int(v)))
      [] type(v) = uintValue -> Ok(ToFloat(integerToDoubleU(v.v_uint)))
      [] type(v) = realValue -> Ok(v.v_real)
      [] type(v) = nullValue -> Ok(Fin(0))
      [] type(v) = boolValue -> Ok(IF v.v_bool THEN ToDouble(1) ELSE ToDouble(0))
      [] OTHER -> LogicError

\* Value::asBool: a real is true unless it is a zero or a NaN
asBool(v) ==
    CASE type(v) = intValue -> Ok(v_int(v) # 0)
      [] type(v) = uintValue -> Ok(v.v_uint # 0)
      [] type(v) = realValue -> Ok(~(v.v_real.cls = "nan" \/ v.v_real = Fin(0)))
      [] type(v) = nullValue -> Ok(FALSE)
      [] type(v) = boolValue -> Ok(v.v_bool)
      [] OTHER -> LogicError

\* Value::isConvertibleTo.  The nullValue case calls asString() on a string
\* Value and inherits what that call does.
isConvertibleTo(v, other) ==
    CASE other = nullValue ->
            IF isNumeric(v) /\ DEq(asDouble(v).val, ToDouble(0)) THEN Ok(TRUE)
            ELSE IF type(v) = boolValue /\ ~v.v_bool THEN Ok(TRUE)
            ELSE IF type(v) = stringValue
                 THEN (IF asString(v).kind = "ok"
                       THEN Ok(Len(asString(v).val) = 0)
                       ELSE asString(v))
            ELSE Ok(\/ (type(v) = arrayValue /\ Len(v.v_map) = 0)
                    \/ (type(v) = objectValue /\ Len(v.v_map) = 0)
                    \/ type(v) = nullValue)
      [] other = intValue ->
            Ok(\/ isInt(v)
               \/ (type(v) = realValue /\ InRange(v.v_real, minInt, maxInt))
               \/ type(v) = boolValue
               \/ type(v) = nullValue)
      [] other = uintValue ->
            Ok(\/ isUInt(v)
               \/ (type(v) = realValue /\ InRange(v.v_real, 0, maxUInt))
               \/ type(v) = boolValue
               \/ type(v) = nullValue)
      [] other \in {realValue, boolValue} ->
            Ok(isNumeric(v) \/ type(v) = boolValue \/ type(v) = nullValue)
      [] other = stringValue ->
            Ok(\/ isNumeric(v)
               \/ type(v) = boolValue
               \/ type(v) = stringValue
               \/ type(v) = nullValue)
      [] other = arrayValue -> Ok(type(v) = arrayValue \/ type(v) = nullValue)
      [] other = objectValue -> Ok(type(v) = objectValue \/ type(v) = nullValue)
      [] OTHER -> LogicError

---------------------------------------------------------------------------
(* The state: a is the Value under test and made the constructor call that *)
(* built it; b is the right operand of a comparison; call is the last call *)
(* and ret what it returned or raised.                                     *)

NoCall == [op |-> "none", arg |-> 0]
NoRet == [kind |-> "none", val |-> 0]
Constructed == [kind |-> "constructed", val |-> 0]

\* no object yet: a holds nothing that a call may read
NotMade == [ctor |-> "none", in |-> 0]

Init ==
    /\ a = initBasic(nullValue, FALSE)
    /\ b = initBasic(nullValue, FALSE)
    /\ heap = {}
    /\ made = NotMade
    /\ call = NoCall
    /\ ret = NoRet

\* a constructor call builds the object a, unless the constructor throws
Construct(ctor, input, result) ==
    /\ made = NotMade
    /\ call' = [op |-> ctor, arg |-> 0]
    /\ IF result.kind = "ok"
       THEN /\ a' = Placed(result.val, NewBlock(heap))
            /\ heap' = heap \cup ({a'.v_ptr} \ {0})
            /\ made' = [ctor |-> ctor, in |-> input]
            /\ ret' = Constructed
       ELSE a' = a /\ heap' = heap /\ made' = made /\ ret' = result
    /\ UNCHANGED b

\* Value::~Value: the object is gone; the payload is released and zeroed
Destroy ==
    /\ made # NotMade
    /\ a' = initBasic(nullValue, FALSE)
    /\ heap' = releasePayload(a, heap)
    /\ made' = NotMade
    /\ call' = NoCall
    /\ ret' = NoRet
    /\ UNCHANGED b

ConstructType ==
    /\ made = NotMade
    /\ \E t \in nullValue .. (objectValue + 1) :
        Construct("Value(ValueType)", t, ValueOfType(t))

ConstructInt32 ==
    /\ made = NotMade
    /\ \E x \in Int32 : Construct("Value(int32_t)", x, ValueOfInt32(x))

ConstructUInt32 ==
    /\ made = NotMade
    /\ \E x \in UInt32 : Construct("Value(uint32_t)", x, ValueOfUInt32(x))

ConstructInt64 ==
    /\ made = NotMade
    /\ \E x \in Int64 : Construct("Value(int64_t)", x, ValueOfInt64(x))

ConstructUInt64 ==
    /\ made = NotMade
    /\ \E x \in UInt64 : Construct("Value(uint64_t)", x, ValueOfUInt64(x))

ConstructDouble ==
    /\ made = NotMade
    /\ \E d \in Doubles : Construct("Value(double)", d, ValueOfDouble(d))

ConstructCString ==
    /\ made = NotMade
    /\ \E p \in {CStr(s) : s \in ByteStrings} \cup {NullPtr} :
        Construct("Value(const char*)", p, ValueOfCString(p))

ConstructRange ==
    /\ made = NotMade
    /\ \E s \in ByteStrings : Construct("Value(begin, end)", s, ValueOfRange(s))

ConstructStatic ==
    /\ made = NotMade
    /\ \E p \in {CStr(s) : s \in ByteStrings} \cup {NullPtr} :
        Construct("Value(StaticString)", p, ValueOfStatic(p))

ConstructStdString ==
    /\ made = NotMade
    /\ \E s \in ByteStrings : Construct("Value(std::string)", s, ValueOfStdString(s))

ConstructBool ==
    /\ made = NotMade
    /\ \E x \in BOOLEAN : Construct("Value(bool)", x, ValueOfBool(x))

\* a const member call on a
Call(op, arg, result) ==
    /\ made # NotMade
    /\ call' = [op |-> op, arg |-> arg]
    /\ ret' \in Outcomes(result)
    /\ UNCHANGED <<a, b, heap, made>>

CallAsCString == Call("asCString", 0, asCString(a))
CallAsString == Call("asString", 0, asString(a))
CallGetCStringLength == Call("getCStringLength", 0, getCStringLength(a))
CallAsInt == Call("asInt", 0, asInt(a))
CallAsUInt == Call("asUInt", 0, asUInt(a))
CallAsInt64 == Call("asInt64", 0, asInt64(a))
CallAsUInt64 == Call("asUInt64", 0, asUInt64(a))
CallAsLargestInt == Call("asLargestInt", 0, asLargestInt(a))
CallAsLargestUInt == Call("asLargestUInt", 0, asLargestUInt(a))
CallAsFloat == Call("asFloat", 0, asFloat(a))
CallAsDouble == Call("asDouble", 0, asDouble(a))
CallAsBool == Call("asBool", 0, asBool(a))
CallIsInt == Call("isInt", 0, Ok(isInt(a)))
CallIsInt64 == Call("isInt64", 0, Ok(isInt64(a)))
CallIsUInt == Call("isUInt", 0, Ok(isUInt(a)))
CallIsUInt64 == Call("isUInt64", 0, Ok(isUInt64(a)))
CallIsIntegral == Call("isIntegral", 0, Ok(isIntegral(a)))
CallIsConvertibleTo ==
    /\ made # NotMade
    /\ \E t \in nullValue .. (objectValue + 1) :
        Call("isConvertibleTo", t, isConvertibleTo(a, t))

Next ==
    \/ ConstructType
    \/ ConstructInt32
    \/ ConstructUInt32
    \/ ConstructInt64
    \/ ConstructUInt64
    \/ ConstructDouble
    \/ ConstructCString
    \/ ConstructRange
    \/ ConstructStatic
    \/ ConstructStdString
    \/ ConstructBool
    \/ CallAsCString
    \/ CallAsString
    \/ CallGetCStringLength
    \/ CallAsInt
    \/ CallAsUInt
    \/ CallAsInt64
    \/ CallAsUInt64
    \/ CallAsLargestInt
    \/ CallAsLargestUInt
    \/ CallAsFloat
    \/ CallAsDouble
    \/ CallAsBool
    \/ CallIsInt
    \/ CallIsInt64
    \/ CallIsUInt
    \/ CallIsUInt64
    \/ CallIsIntegral
    \/ CallIsConvertibleTo
    \/ Destroy

Spec == Init /\ [][Next]_vars

---------------------------------------------------------------------------
(* Comparison: two Values built by the constructors from inputs at and     *)
(* around the limits of each type, then compared.                          *)

EdgeInt64 == {minInt64, minInt64 + 1, minInt - 1, minInt, 0 - 1, 0, 1, maxInt,
              maxInt + 1, maxInt64 - 1, maxInt64}

EdgeUInt64 == {0, 1, ToU32(0 - 1), ToU64(maxInt64), ToU64(maxInt64) + 1,
               ToU64(0 - 1)}

EdgeDoubles == {NaN, NegInf, PosInf, ToDouble(0 - 1), ToDouble(0), Fin(1)}

Operands ==
    {r.val : r \in {x \in
        {ValueOfType(t) : t \in ValueTypes}
        \cup {ValueOfInt32(x) : x \in {minInt, maxInt}}
        \cup {ValueOfUInt32(x) : x \in {ToU32(0 - 1)}}
        \cup {ValueOfInt64(x) : x \in EdgeInt64}
        \cup {ValueOfUInt64(x) : x \in EdgeUInt64}
        \cup {ValueOfDouble(d) : d \in EdgeDoubles}
        \cup {ValueOfBool(x) : x \in BOOLEAN}
        \cup {ValueOfCString(CStr(s)) : s \in ByteStrings}
        \cup {ValueOfRange(s) : s \in ByteStrings}
        \cup {ValueOfStdString(s) : s \in ByteStrings}
        \cup {ValueOfStatic(p) : p \in {CStr(s) : s \in ByteStrings} \cup {NullPtr}} :
        x.kind = "ok"}}

BothMade == [ctor |-> "operands", in |-> 0]

\* two constructor calls: a and b are built
MakeOperands ==
    /\ made = NotMade
    /\ \E x \in Operands, y \in Operands : a' = Placed(x, 1) /\ b' = Placed(y, 2)
    /\ heap' = {a'.v_ptr, b'.v_ptr} \ {0}
    /\ made' = BothMade
    /\ call' = NoCall
    /\ ret' = Constructed

\* both objects are destroyed
DestroyOperands ==
    /\ made = BothMade
    /\ a' = initBasic(nullValue, FALSE)
    /\ b' = initBasic(nullValue, FALSE)
    /\ heap' = releasePayload(b, releasePayload(a, heap))
    /\ made' = NotMade
    /\ call' = NoCall
    /\ ret' = NoRet

CallLess == made = BothMade /\ Call("operator<", 0, Ok(Less(a, b)))
CallLessEq == made = BothMade /\ Call("operator<=", 0, Ok(LessEq(a, b)))
CallGreaterEq == made = BothMade /\ Call("operator>=", 0, Ok(GreaterEq(a, b)))
CallGreater == made = BothMade /\ Call("operator>", 0, Ok(Greater(a, b)))
CallCompare == made = BothMade /\ Call("compare", 0, Ok(compare(a, b)))

NextCmp ==
    \/ MakeOperands
    \/ DestroyOperands
    \/ CallLess
    \/ CallLessEq
    \/ CallGreaterEq
    \/ CallGreater
    \/ CallCompare

SpecCmp == Init /\ [][NextCmp]_vars

\* the same two operands, compared for equality as well
CallEqual == made = BothMade /\ Call("operator==", 0, Ok(Equal(a, b)))
CallNotEqual == made = BothMade /\ Call("operator!=", 0, Ok(NotEqual(a, b)))

NextEq ==
    \/ MakeOperands
    \/ DestroyOperands
    \/ CallLess
    \/ CallEqual
    \/ CallNotEqual

SpecEq == Init /\ [][NextEq]_vars

---------------------------------------------------------------------------
(* The formatters of utils.cc, called on their own: no Value is involved.  *)
(* A 64-bit argument is four limbs, each drawn from LimbSamples.           *)

LimbSamples == {0, 1, 9, 10, Pow2(15) - 1, Pow2(15), LimbBase - 1}

Samples64 == [1 .. 4 -> LimbSamples]

Samples32 == [1 .. 2 -> LimbSamples]

Precisions == (0 .. MaxPrecision) \cup {defaultRealPrecision}

\* a call of a free function; the caller takes the result before the next
Invoke(op, arg, result) ==
    /\ made = NotMade
    /\ call = NoCall
    /\ call' = [op |-> op, arg |-> arg]
    /\ ret' \in Outcomes(result)
    /\ UNCHANGED <<a, b, heap, made>>

Return ==
    /\ made = NotMade
    /\ call # NoCall
    /\ call' = NoCall
    /\ ret' = NoRet
    /\ UNCHANGED <<a, b, heap, made>>

ToStringInt64 ==
    /\ call = NoCall
    /\ \E x \in Samples64 : Invoke("valueToString(int64_t)", x, valueToStringInt64(x))

ToStringUInt64 ==
    /\ call = NoCall
    /\ \E x \in Samples64 : Invoke("valueToString(uint64_t)", x, valueToStringUInt64(x))

ToStringInt32 ==
    /\ call = NoCall
    /\ \E x \in Samples32 : Invoke("valueToString(int32_t)", x, valueToStringInt32(x))

ToStringUInt32 ==
    /\ call = NoCall
    /\ \E x \in Samples32 : Invoke("valueToString(uint32_t)", x, valueToStringUInt32(x))

ToStringBool ==
    /\ call = NoCall
    /\ \E x \in BOOLEAN : Invoke("valueToString(bool)", x, valueToStringBool(x))

ToStringDouble3 ==
    /\ call = NoCall
    /\ \E d \in Doubles, p \in Precisions, t \in {significantDigits, decimalPlaces} :
        Invoke("valueToString(double, unsigned, PrecisionType)",
               [value |-> d, useSpecialFloats |-> FALSE, precision |-> p,
                precisionType |-> t],
               valueToStringDouble3(d, p, t))

ToStringDouble4 ==
    /\ call = NoCall
    /\ \E d \in Doubles, u \in BOOLEAN, p \in Precisions,
       t \in {significantDigits, decimalPlaces} :
        Invoke("valueToString(double, bool, unsigned, PrecisionType)",
               [value |-> d, useSpecialFloats |-> u, precision |-> p,
                precisionType |-> t],
               valueToStringDouble4(d, u, p, t))

NextText ==
    \/ ToStringInt64
    \/ ToStringUInt64
    \/ ToStringInt32
    \/ ToStringUInt32
    \/ ToStringBool
    \/ ToStringDouble3
    \/ ToStringDouble4
    \/ Return

SpecText == Init /\ [][NextText]_vars

---------------------------------------------------------------------------
(* except.cc: Value::Comments; moving and swapping Values; Value::size *)

\* enum CommentPlacement
commentBefore == 0
commentAfterOnSameLine == 1
commentAfter == 2
numberOfCommentPlacement == 3

\* Array(): numberOfCommentPlacement empty strings
EmptySlots == [i \in 1 .. numberOfCommentPlacement |-> <<>>]

\* (*m_ptr)[slot] of a std::array: outside the array the read is undefined
SlotInRange(slot) == slot >= 0 /\ slot < numberOfCommentPlacement

\* Comments::has
CommentsHas(c, slot) ==
    IF c.null THEN Ok(FALSE)
    ELSE IF SlotInRange(slot) THEN Ok(c.slots[slot + 1] # <<>>)
    ELSE UB({Ok(FALSE), Ok(TRUE), [kind |-> "crash", val |-> 0]})

\* Comments::get
CommentsGet(c, slot) ==
    IF c.null THEN Ok(<<>>)
    ELSE IF SlotInRange(slot) THEN Ok(c.slots[slot + 1])
    ELSE UB({Ok(<<>>), [kind |-> "crash", val |-> 0]})

\* Comments::set: what it returns or raises, and the comments afterwards
CommentsSet(c, slot, comment) ==
    IF slot >= numberOfCommentPlacement THEN [result |-> Done, comments |-> c]
    ELSE [result |-> Done,
          comments |-> [null |-> FALSE,
                        slots |-> [(IF c.null THEN EmptySlots ELSE c.slots)
                                      EXCEPT ![slot + 1] = comment]]]

\* swapPayload without the exchange of m_bits
swapPayload_ValueOnly(this, other) ==
    LET value(x, y) == [x EXCEPT !.v_uint = y.v_uint, !.v_real = y.v_real,
                                 !.v_bool = y.v_bool, !.v_string = y.v_string,
                                 !.v_map = y.v_map, !.v_ptr = y.v_ptr]
    IN  <<value(this, other), value(other, this)>>

\* Value::swapPayload: std::swap of m_bits and of m_value; <<this, other>>
swapPayload(this, other) ==
    LET bits(x, y) == [x EXCEPT !.type = y.type, !.allocated = y.allocated]
        value(x, y) == [x EXCEPT !.v_uint = y.v_uint, !.v_real = y.v_real,
                                 !.v_bool = y.v_bool, !.v_string = y.v_string,
                                 !.v_map = y.v_map, !.v_ptr = y.v_ptr]
    IN  <<value(bits(this, other), other), value(bits(other, this), this)>>

\* Value::swap: swapPayload, then m_comments, m_start and m_limit
swap(this, other) ==
    LET p == swapPayload(this, other)
        meta(x, y) == [x EXCEPT !.comments = y.comments, !.start = y.start,
                                !.limit = y.limit]
    IN  <<meta(p[1], other), meta(p[2], this)>>

\* Value(Value&& other): initBasic(nullValue); swap(other); <<this, other>>
ValueOfMoved(other) == swap(initBasic(nullValue, FALSE), other)

\* operator=(Value&& other): other.swap(*this); <<this, other>>
MoveAssignValue(this, other) ==
    LET r == swap(other, this) IN <<r[2], r[1]>>

\* the member map: the pairs in the order of the keys; std::map finds the
\* first key that is not less than the given one
RECURSIVE lowerBound(_, _, _)
lowerBound(map, key, i) ==
    IF i > Len(map) THEN i
    ELSE IF CZStringLess(map[i].key, key) = Ok(TRUE)
         THEN lowerBound(map, key, i + 1)
         ELSE i

\* operator[] on the map: the member of an equivalent key is kept, a new
\* null member is put in otherwise
MapInsert(map, key) ==
    LET i == lowerBound(map, key, 1)
    IN  IF i <= Len(map) /\ CZStringLess(key, map[i].key) # Ok(TRUE) THEN map
        ELSE SubSeq(map, 1, i - 1)
             \o <<[key |-> key, value |-> initBasic(nullValue, FALSE)]>>
             \o SubSeq(map, i, Len(map))

\* Value::size
size(v) ==
    CASE type(v) \in {nullValue, intValue, uintValue, realValue, boolValue,
                      stringValue} -> Ok(0)
      [] type(v) = arrayValue ->
            IF Len(v.v_map) # 0
            THEN Ok(ToU32(CZStringIndex(v.v_map[Len(v.v_map)].key) + 1))
            ELSE Ok(0)
      [] type(v) = objectValue -> Ok(ToU32(Len(v.v_map)))
      [] OTHER -> LogicError

---------------------------------------------------------------------------
(* SpecKey: the life of two keys.  a is built first, b is built on its     *)
(* own, or copied or moved from a; then they are compared and assigned.    *)

OneKey == [ctor |-> "CZString", in |-> 1]
TwoKeys == [ctor |-> "CZString", in |-> 2]


\* buffers of the caller that are not blocks of the free store
BufferOfA == 101
BufferOfB == 102

InitKey ==
    /\ a = CZStringOfIndex(0)
    /\ b = CZStringOfIndex(0)
    /\ heap = {}
    /\ made = NotMade
    /\ call = NoCall
    /\ ret = NoRet

\* the bytes, length and policy given to CZString(str, length, policy); a
\* key told to own its buffer (duplicate) is given a block of the free store
GivenKey(s, policy, live, buffer) ==
    CZStringOf(KeyPtr(IF policy = duplicate THEN NewBlock(live) ELSE buffer, s),
               Len(s), policy)

OwnedBlock(k) == IF CZStringDeletes(k) THEN {k.cstr.addr} ELSE {}

KeyOfIndex ==
    /\ made = NotMade
    /\ \E i \in UInt32 :
        /\ a' = CZStringOfIndex(i)
        /\ call' = [op |-> "CZString(index)", arg |-> i]
    /\ made' = OneKey
    /\ ret' = Constructed
    /\ UNCHANGED <<b, heap>>

KeyOfString ==
    /\ made = NotMade
    /\ \E s \in ByteStrings, p \in Policies :
        /\ a' = GivenKey(s, p, heap, BufferOfA)
        /\ call' = [op |-> "CZString(str, length, policy)", arg |-> <<s, p>>]
    /\ heap' = heap \cup OwnedBlock(a')
    /\ made' = OneKey
    /\ ret' = Constructed
    /\ UNCHANGED b

OtherOfIndex ==
    /\ made = OneKey
    /\ \E i \in UInt32 :
        /\ b' = CZStringOfIndex(i)
        /\ call' = [op |-> "CZString(index)", arg |-> i]
    /\ made' = TwoKeys
    /\ ret' = Constructed
    /\ UNCHANGED <<a, heap>>

OtherOfString ==
    /\ made = OneKey
    /\ \E s \in ByteStrings, p \in Policies :
        /\ b' = GivenKey(s, p, heap, BufferOfB)
        /\ call' = [op |-> "CZString(str, length, policy)", arg |-> <<s, p>>]
    /\ heap' = heap \cup OwnedBlock(b')
    /\ made' = TwoKeys
    /\ ret' = Constructed
    /\ UNCHANGED a

\* CZString b(a)
CopyConstruct ==
    /\ made = OneKey
    /\ b' = CZStringCopy(a, NewBlock(heap))
    /\ heap' = IF b'.cstr = a.cstr THEN heap ELSE heap \cup {b'.cstr.addr}
    /\ made' = TwoKeys
    /\ call' = [op |-> "CZString(CZString const&)", arg |-> 0]
    /\ ret' = Constructed
    /\ UNCHANGED a

\* CZString b(std::move(a))
MoveConstruct ==
    /\ made = OneKey
    /\ b' = CZStringMove(a)[1]
    /\ a' = CZStringMove(a)[2]
    /\ made' = TwoKeys
    /\ call' = [op |-> "CZString(CZString&&)", arg |-> 0]
    /\ ret' = Constructed
    /\ UNCHANGED heap

\* a = b
CopyAssign ==
    /\ made = TwoKeys
    /\ a' = CZStringAssign(a, b)
    /\ call' = [op |-> "operator=(const CZString&)", arg |-> 0]
    /\ ret' = Done
    /\ UNCHANGED <<b, heap, made>>

\* a = std::move(b)
MoveAssign ==
    /\ made = TwoKeys
    /\ a' = CZStringMoveAssign(a, b)[1]
    /\ b' = CZStringMoveAssign(a, b)[2]
    /\ call' = [op |-> "operator=(CZString&&)", arg |-> 0]
    /\ ret' = Done
    /\ UNCHANGED <<heap, made>>

KeyLess == made = TwoKeys /\ Call("CZString::operator<", 0, CZStringLess(a, b))

KeyEq == made = TwoKeys /\ Call("CZString::operator==", 0, CZStringEq(a, b))

\* ~CZString of b, then of a: what was deleted twice or was no block of the
\* free store, and what was left live
DestroyKeys ==
    /\ made \in {OneKey, TwoKeys}
    /\ LET first == IF made = TwoKeys THEN OwnedBlock(b) ELSE {}
           second == OwnedBlock(a)
       IN  ret' = [kind |-> "destroyed",
                   val |-> [bad |-> (first \ heap) \cup (second \ (heap \ first)),
                            left |-> heap \ (first \cup second)]]
    /\ a' = CZStringOfIndex(0)
    /\ b' = CZStringOfIndex(0)
    /\ heap' = {}
    /\ made' = NotMade
    /\ call' = [op |-> "~CZString", arg |-> 0]

\* lengths about the limits of the code, for buffers whose bytes are left out
LongLengths ==
    {0, 1, lengthLimit - 1, lengthLimit, lengthLimit + 1, maxPrefixedLength,
     maxPrefixedLength + 1, maxIntLength - 1, maxIntLength}

\* CZString(str, length, policy) on a long buffer: the key
LongKey ==
    /\ call = NoCall
    /\ \E n \in LongLengths, p \in Policies :
        Invoke("CZString(str, length, policy)", [length |-> n, policy |-> p],
               Ok(CZStringOf(KeyPtr(BufferOfA, <<>>), n, p)))

\* duplicateStringValue on a long buffer: the number of bytes copied
LongDuplicate ==
    /\ call = NoCall
    /\ \E n \in LongLengths :
        Invoke("duplicateStringValue", n, Ok(duplicatedLength(n)))

\* duplicateAndPrefixStringValue on a long buffer: the length stored
LongPrefixed ==
    /\ call = NoCall
    /\ \E n \in LongLengths :
        Invoke("duplicateAndPrefixStringValue", n, prefixedLength(n))

NextKey ==
    \/ KeyOfIndex
    \/ KeyOfString
    \/ OtherOfIndex
    \/ OtherOfString
    \/ CopyConstruct
    \/ MoveConstruct
    \/ CopyAssign
    \/ MoveAssign
    \/ KeyLess
    \/ KeyEq
    \/ DestroyKeys
    \/ LongKey
    \/ LongDuplicate
    \/ LongPrefixed
    \/ Return

SpecKey == InitKey /\ [][NextKey]_vars

\* the Value API and the formatters together
SpecValueText == Init /\ [][Next \/ NextText]_vars

---------------------------------------------------------------------------
(* SpecMeta: a Value s (the variable a) with comments and offsets, a second *)
(* Value d (the variable b), and the moves and swaps between the two.       *)
(* made.in is <<>> until the first move or swap and holds <<a, b, heap>> as    *)
(* they were before the current run of one operation afterwards; call.arg   *)
(* of a move or swap counts the applications in the run.                    *)

OnlySource == "source"
SourceAndTarget == "pair"

MetaOperands ==
    {r.val : r \in
        {ValueOfType(nullValue), ValueOfInt32(1), ValueOfStdString(<<1>>),
         ValueOfStatic(CStr(<<1>>)), ValueOfType(objectValue)}}

CommentTexts == {<<>>, <<99>>}
Slots == 0 .. numberOfCommentPlacement
Offsets == {0, 1}

\* Value s(...)
MakeSource ==
    /\ made.ctor = NotMade.ctor
    /\ \E x \in MetaOperands : a' = Placed(x, NewBlock(heap))
    /\ heap' = heap \cup ({a'.v_ptr} \ {0})
    /\ made' = [ctor |-> OnlySource, in |-> <<>>]
    /\ call' = NoCall
    /\ ret' = Constructed
    /\ UNCHANGED b

\* Value d(...)
MakeTarget ==
    /\ made.ctor = OnlySource
    /\ \E y \in MetaOperands : b' = Placed(y, NewBlock(heap))
    /\ heap' = heap \cup ({b'.v_ptr} \ {0})
    /\ made' = [ctor |-> SourceAndTarget, in |-> <<>>]
    /\ call' = NoCall
    /\ ret' = Constructed
    /\ UNCHANGED a

\* s.m_comments.set(slot, comment)
SetComment ==
    /\ made.ctor # NotMade.ctor /\ made.in = <<>>
    /\ \E slot \in Slots, comment \in CommentTexts :
        LET r == CommentsSet(a.comments, slot, comment)
        IN  /\ a' = [a EXCEPT !.comments = r.comments]
            /\ call' = [op |-> "Comments::set",
                        arg |-> [slot |-> slot, comment |-> comment,
                                 before |-> a.comments]]
            /\ ret' = r.result
    /\ UNCHANGED <<b, heap, made>>

\* setOffsetStart and setOffsetLimit store m_start and m_limit
setOffsetStart(v, start) == [v EXCEPT !.start = start]
setOffsetLimit(v, limit) == [v EXCEPT !.limit = limit]

SetOffsetStart ==
    /\ made.ctor # NotMade.ctor /\ made.in = <<>>
    /\ \E start \in Offsets :
        /\ \/ a' = setOffsetStart(a, start) /\ b' = b
           \/ made.ctor = SourceAndTarget /\ b' = setOffsetStart(b, start) /\ a' = a
        /\ call' = [op |-> "setOffsetStart", arg |-> start]
    /\ ret' = Done
    /\ UNCHANGED <<heap, made>>

SetOffsetLimit ==
    /\ made.ctor # NotMade.ctor /\ made.in = <<>>
    /\ \E limit \in Offsets :
        /\ a' = setOffsetLimit(a, limit)
        /\ call' = [op |-> "setOffsetLimit", arg |-> limit]
    /\ ret' = Done
    /\ UNCHANGED <<b, heap, made>>

\* s.m_comments.has(slot)
CallHas ==
    /\ made.ctor # NotMade.ctor
    /\ \E slot \in Slots :
        /\ call' = [op |-> "Comments::has", arg |-> slot]
        /\ ret' \in Outcomes(CommentsHas(a.comments, slot))
    /\ UNCHANGED <<a, b, heap, made>>

\* s.m_comments.get(slot)
CallGet ==
    /\ made.ctor # NotMade.ctor
    /\ \E slot \in Slots :
        /\ call' = [op |-> "Comments::get", arg |-> slot]
        /\ ret' \in Outcomes(CommentsGet(a.comments, slot))
    /\ UNCHANGED <<a, b, heap, made>>

\* a move or swap: r is <<a, b>> afterwards; the free store is not touched
Transfer(op, repeats, r) ==
    LET again == repeats /\ made.in # <<>> /\ call.op = op /\ call.arg = 1
    IN  /\ a' = r[1]
        /\ b' = r[2]
        /\ call' = [op |-> op, arg |-> IF again THEN 2 ELSE 1]
        /\ made' = [ctor |-> SourceAndTarget,
                    in |-> IF again THEN made.in ELSE <<a, b, heap>>]
        /\ ret' = Done
        /\ UNCHANGED heap

\* Value d(std::move(s))
MoveConstructValue ==
    /\ made.ctor = OnlySource
    /\ LET r == ValueOfMoved(a) IN Transfer("Value(Value&&)", FALSE, <<r[2], r[1]>>)

\* d = std::move(s)
MoveAssignValues ==
    /\ made.ctor = SourceAndTarget
    /\ LET r == MoveAssignValue(b, a)
       IN  Transfer("operator=(Value&&)", FALSE, <<r[2], r[1]>>)

\* s.swapPayload(d)
SwapPayload ==
    /\ made.ctor = SourceAndTarget
    /\ Transfer("swapPayload", TRUE, swapPayload(a, b))

\* s.swap(d)
Swap ==
    /\ made.ctor = SourceAndTarget
    /\ Transfer("swap", TRUE, swap(a, b))

\* both Values are destroyed
DestroyValues ==
    /\ made.ctor # NotMade.ctor
    /\ a' = initBasic(nullValue, FALSE)
    /\ b' = initBasic(nullValue, FALSE)
    /\ heap' = releasePayload(b, releasePayload(a, heap))
    /\ made' = NotMade
    /\ call' = NoCall
    /\ ret' = NoRet

NextMeta ==
    \/ MakeSource
    \/ MakeTarget
    \/ SetComment
    \/ SetOffsetStart
    \/ SetOffsetLimit
    \/ CallHas
    \/ CallGet
    \/ MoveConstructValue
    \/ MoveAssignValues
    \/ SwapPayload
    \/ Swap
    \/ DestroyValues

SpecMeta == Init /\ [][NextMeta]_vars

---------------------------------------------------------------------------
(* SpecMap: a Value, the members put into it when it is an array or an     *)
(* object, and size().                                                     *)

\* the most members put into one Value
MaxMembers == 3

\* arr[index]
InsertIndex ==
    /\ made.ctor # NotMade.ctor
    /\ type(a) = arrayValue
    /\ Len(a.v_map) < MaxMembers
    /\ \E index \in UInt32 :
        /\ a' = [a EXCEPT !.v_map = MapInsert(a.v_map, CZStringOfIndex(index))]
        /\ call' = [op |-> "operator[](ArrayIndex)", arg |-> index]
    /\ ret' = Done
    /\ UNCHANGED <<b, heap, made>>

\* obj[name]: the map keeps a key that owns a copy of the name
InsertName ==
    /\ made.ctor # NotMade.ctor
    /\ type(a) = objectValue
    /\ Len(a.v_map) < MaxMembers
    /\ \E name \in TextStrings :
        LET key == GivenKey(name, duplicate, heap, 0)
            map == MapInsert(a.v_map, key)
        IN  /\ a' = [a EXCEPT !.v_map = map]
            /\ heap' = IF map = a.v_map THEN heap ELSE heap \cup OwnedBlock(key)
            /\ call' = [op |-> "operator[](const char*)", arg |-> name]
    /\ ret' = Done
    /\ UNCHANGED <<b, made>>

CallSize == Call("size", 0, size(a))

\* ~Value: the payload and the keys of the members are released
DestroyValue ==
    /\ made.ctor # NotMade.ctor
    /\ a' = initBasic(nullValue, FALSE)
    /\ heap' = releasePayload(a, heap)
                 \ UNION {OwnedBlock(a.v_map[i].key) : i \in 1 .. Len(a.v_map)}
    /\ made' = NotMade
    /\ call' = NoCall
    /\ ret' = NoRet
    /\ UNCHANGED b

NextMap ==
    \/ ConstructType
    \/ ConstructInt64
    \/ ConstructUInt64
    \/ ConstructDouble
    \/ ConstructBool
    \/ ConstructStatic
    \/ ConstructStdString
    \/ InsertIndex
    \/ InsertName
    \/ CallSize
    \/ DestroyValue

SpecMap == Init /\ [][NextMap]_vars

---------------------------------------------------------------------------
(* SpecZeros: fixZerosInTheEnd on a character sequence of the caller.      *)

\* the longest character sequence given to fixZerosInTheEnd
MaxBuffer == 5

BufferChars == {Ord["0"], Ord["5"], Ord["."]}
Buffers == UNION {[1 .. n -> BufferChars] : n \in 0 .. MaxBuffer}

\* the caller fills a buffer
FillBuffer ==
    /\ made.ctor = NotMade.ctor
    /\ \E buffer \in Buffers : made' = [ctor |-> "buffer", in |-> buffer]
    /\ call' = NoCall
    /\ ret' = NoRet
    /\ UNCHANGED <<a, b, heap>>

\* fixZerosInTheEnd(buffer.begin(), buffer.end(), precision)
FixZeros ==
    /\ made.ctor = "buffer"
    /\ \E precision \in 0 .. MaxPrecision :
        /\ call' = [op |-> "fixZerosInTheEnd", arg |-> precision]
        /\ ret' = Ok(fixZerosInTheEnd(made.in, Len(made.in), precision))
    /\ UNCHANGED <<a, b, heap, made>>

\* the buffer goes out of scope
DropBuffer ==
    /\ made.ctor = "buffer"
    /\ made' = NotMade
    /\ call' = NoCall
    /\ ret' = NoRet
    /\ UNCHANGED <<a, b, heap>>

NextZeros ==
    \/ FillBuffer
    \/ FixZeros
    \/ DropBuffer

SpecZeros == Init /\ [][NextZeros]_vars




---------------------------------------------------------------------------
(* What the claims speak of, stated apart from the code above *)

\* what a string Value holds: no string at all (a null pointer), or bytes
StringContent(v) ==
    IF v.v_string.null THEN [null |-> TRUE, bytes |-> <<>>]
    ELSE LET n == IF v.allocated THEN v.v_string.len ELSE strlen(v.v_string.mem)
         IN  [null |-> FALSE, bytes |-> SubSeq(v.v_string.mem, 1, n)]

\* same variant and equal content, for the variants null, int, uint, bool, string
SameContent(x, y) ==
    /\ x.type = y.type
    /\ CASE x.type = nullValue -> TRUE
         [] x.type = intValue -> AsS64(x.v_uint) = AsS64(y.v_uint)
         [] x.type = uintValue -> x.v_uint = y.v_uint
         [] x.type = boolValue -> x.v_bool = y.v_bool
         [] x.type = stringValue -> StringContent(x) = StringContent(y)
         [] OTHER -> FALSE

ScalarTypes == {nullValue, intValue, uintValue, boolValue, stringValue}

\* C1: two Values of the same variant with equal content (null, int, uint,
\* bool or string, a string stored prefixed or static) compare equal:
\* compare is 0, a < b is false and b < a is false.
C1_EqualContentComparesEqual ==
    (made = BothMade /\ a.type \in ScalarTypes /\ SameContent(a, b)) =>
        /\ call.op = "compare" => ret = Ok(0)
        /\ call.op = "operator<" => ret = Ok(FALSE)
        /\ call.op = "operator>" => ret = Ok(FALSE)

\* an allocated and a static string with the same two bytes were compared
C1_Witness ==
    /\ made = BothMade
    /\ call.op = "compare"
    /\ a.type = stringValue /\ a.allocated /\ ~b.allocated
    /\ SameContent(a, b)
    /\ Len(StringContent(a).bytes) = 2
    /\ ret = Ok(0)

\* C2: a Value built from a 32- or 64-bit signed or unsigned integer, a bool
\* or a byte string (zero bytes included, from a range or a std::string)
\* gives the input back through the matching accessor.
C2_RoundTrip ==
    /\ (made.ctor = "Value(int32_t)" /\ call.op = "asInt") => ret = Ok(made.in)
    /\ (made.ctor = "Value(uint32_t)" /\ call.op = "asUInt") => ret = Ok(made.in)
    /\ (made.ctor = "Value(int64_t)" /\ call.op = "asInt64") => ret = Ok(made.in)
    /\ (made.ctor = "Value(uint64_t)" /\ call.op = "asUInt64") => ret = Ok(made.in)
    /\ (made.ctor = "Value(bool)" /\ call.op = "asBool") => ret = Ok(made.in)
    /\ (made.ctor \in {"Value(begin, end)", "Value(std::string)"}
            /\ call.op = "asString") => ret = Ok(made.in)
    /\ (made.ctor \in {"Value(begin, end)", "Value(std::string)"}
            /\ call.op = "getCStringLength") => ret = Ok(Len(made.in))

\* a string with a zero byte in front, built from a range, was read back whole
C2_Witness ==
    /\ made.ctor = "Value(begin, end)"
    /\ call.op = "asString"
    /\ Len(made.in) = 2 /\ made.in[1] = 0 /\ made.in[2] # 0
    /\ ret = Ok(made.in)

\* the number n is the number the Value v stores
StoredEquals(v, n) ==
    CASE v.type = intValue -> AsS64(v.v_uint) = n
      [] v.type = uintValue -> v.v_uint = n
      [] v.type = realValue -> v.v_real = Fin(2 * n)
      [] v.type = boolValue -> n = (IF v.v_bool THEN 1 ELSE 0)
      [] v.type = nullValue -> n = 0
      [] OTHER -> FALSE

\* asInt returned, without raising, a 32-bit value equal to the stored one
AsIntLossless(v, r) == r.kind = "ok" /\ r.val \in Int32 /\ StoredEquals(v, r.val)

\* C3 as stated: for every variant, isInt() is true iff asInt() returns a
\* 32-bit value equal to the stored value without raising.
C3_IsIntIffLossless_EveryVariant ==
    call.op = "asInt" => (isInt(a) <=> AsIntLossless(a, ret))

\* C3 amended: the equivalence holds for int, uint, real, string, array and
\* object Values; for a null or bool Value isInt() is false while asInt()
\* returns 0, or 0/1, without raising.
C3_IsIntIffLossless ==
    call.op = "asInt" =>
        /\ a.type \notin {nullValue, boolValue} =>
              (isInt(a) <=> AsIntLossless(a, ret))
        /\ a.type \in {nullValue, boolValue} =>
              /\ ~isInt(a)
              /\ ret = Ok(IF a.type = boolValue /\ a.v_bool THEN 1 ELSE 0)

\* asInt truncated a real with a fractional part, for which isInt() is false
C3_Witness ==
    /\ call.op = "asInt"
    /\ a.type = realValue /\ a.v_real.cls = "fin" /\ a.v_real.h % 2 = 1
    /\ ret.kind = "ok"
    /\ ~isInt(a)

\* the mathematical integer an int, a uint or a whole-numbered real holds
HoldsInteger(v) ==
    \/ v.type \in {intValue, uintValue}
    \/ (v.type = realValue /\ v.v_real.cls = "fin" /\ v.v_real.h % 2 = 0)

IntegerOf(v) ==
    CASE v.type = intValue -> AsS64(v.v_uint)
      [] v.type = uintValue -> v.v_uint
      [] OTHER -> v.v_real.h \div 2

\* C4: for an int, a uint or a whole-numbered real holding n, isUInt() is
\* true iff 0 <= n <= 2^32-1, isInt64() iff -2^63 <= n <= 2^63-1 and
\* isUInt64() iff 0 <= n <= 2^64-1.
C4_RangePredicatesExact ==
    HoldsInteger(a) =>
        /\ call.op = "isUInt" => ret = Ok(IntegerOf(a) \in UInt32)
        /\ call.op = "isInt64" => ret = Ok(IntegerOf(a) \in Int64)
        /\ call.op = "isUInt64" => ret = Ok(IntegerOf(a) \in UInt64)

\* C5: asInt, asUInt, asInt64 and asUInt64 on an int or uint Value whose
\* stored integer is outside the target type raise a logic error.
C5_NarrowingRaises ==
    LET target == CASE call.op = "asInt" -> Int32
                    [] call.op = "asUInt" -> UInt32
                    [] call.op = "asInt64" -> Int64
                    [] call.op = "asUInt64" -> UInt64
    IN  (/\ call.op \in {"asInt", "asUInt", "asInt64", "asUInt64"}
         /\ a.type \in {intValue, uintValue}
         /\ IntegerOf(a) \notin target) => ret = LogicError

\* C6: the numeric accessors return 0 (false) on null and 0/1 on bool and
\* raise on string, array and object; asCString and getCStringLength raise
\* on every non-string Value; asString raises on array and object.
C6_CoercionByVariant ==
    LET one == a.type = boolValue /\ a.v_bool
    IN  /\ (call.op \in {"asInt", "asUInt", "asInt64", "asUInt64"}
              /\ a.type \in {nullValue, boolValue}) =>
                 ret = Ok(IF one THEN 1 ELSE 0)
        /\ (call.op \in {"asFloat", "asDouble"}
              /\ a.type \in {nullValue, boolValue}) =>
                 ret = Ok(IF one THEN Fin(2) ELSE Fin(0))
        /\ (call.op = "asBool" /\ a.type \in {nullValue, boolValue}) =>
                 ret = Ok(one)
        /\ (call.op \in {"asInt", "asUInt", "asInt64", "asUInt64", "asFloat",
                         "asDouble", "asBool"}
              /\ a.type \in {stringValue, arrayValue, objectValue}) =>
                 ret = LogicError
        /\ (call.op \in {"asCString", "getCStringLength"}
              /\ a.type # stringValue) => ret = LogicError
        /\ (call.op = "asString" /\ a.type \in {arrayValue, objectValue}) =>
                 ret = LogicError

\* asDouble on a true bool gave 1.0
C6_Witness ==
    /\ call.op = "asDouble"
    /\ a.type = boolValue /\ a.v_bool
    /\ ret = Ok(Fin(2))

\* C7: an array or object converts to its own variant, and to null when
\* empty; an int, uint or bool converts to null iff it is zero or false; a
\* string converts to null iff it is empty; null converts to every target.
C7_ConvertibilityMatrix ==
    (call.op = "isConvertibleTo" /\ call.arg \in ValueTypes) =>
        /\ a.type \in {arrayValue, objectValue} =>
              ret = Ok(\/ call.arg = a.type
                       \/ (call.arg = nullValue /\ Len(a.v_map) = 0))
        /\ (a.type = intValue /\ call.arg = nullValue) =>
              ret = Ok(AsS64(a.v_uint) = 0)
        /\ (a.type = uintValue /\ call.arg = nullValue) =>
              ret = Ok(a.v_uint = 0)
        /\ (a.type = boolValue /\ call.arg = nullValue) => ret = Ok(~a.v_bool)
        /\ (a.type = stringValue /\ call.arg = nullValue) =>
              ret = Ok(Len(StringContent(a).bytes) = 0)
        /\ a.type = nullValue => ret = Ok(TRUE)

\* the variants in the order the claim gives them
VariantOrder ==
    <<nullValue, intValue, uintValue, realValue, stringValue, boolValue,
      arrayValue, objectValue>>

Rank(t) == CHOOSE i \in 1..Len(VariantOrder) : VariantOrder[i] = t

OrderedTypes == {intValue, uintValue, boolValue, stringValue}

\* C8: operator< orders Values of different variants by the variant's place
\* in null < int < uint < real < string < bool < array < object; within int,
\* uint, bool and string it is irreflexive, asymmetric and transitive and
\* exactly one of a < b, b < a, equal content holds; compare(a, b) is -1, 1
\* or 0 accordingly and compare(a, b) = -compare(b, a).
C8_StrictTotalOrder ==
    made = BothMade =>
        /\ call.op = "operator<" =>
              /\ a.type # b.type => ret = Ok(Rank(a.type) < Rank(b.type))
              /\ (a.type = b.type /\ a.type \in OrderedTypes) =>
                    /\ SameContent(a, b) => ret = Ok(FALSE)
                    /\ ret = Ok(TRUE) => ~Less(b, a)
                    /\ \A c \in Operands :
                          (c.type = a.type /\ ret = Ok(TRUE) /\ Less(b, c))
                              => Less(a, c)
                    /\ \/ (ret = Ok(TRUE) /\ ~Less(b, a) /\ ~SameContent(a, b))
                       \/ (ret = Ok(FALSE) /\ Less(b, a) /\ ~SameContent(a, b))
                       \/ (ret = Ok(FALSE) /\ ~Less(b, a) /\ SameContent(a, b))
        /\ call.op = "compare" =>
              /\ ret.kind = "ok" /\ ret.val \in {0 - 1, 0, 1}
              /\ ret.val = 0 - compare(b, a)
              /\ a.type # b.type =>
                    ret.val = (IF Rank(a.type) < Rank(b.type) THEN 0 - 1 ELSE 1)
              /\ (a.type = b.type /\ a.type \in OrderedTypes) =>
                    /\ ret.val = 0 - 1 <=> Less(a, b)
                    /\ ret.val = 1 <=> Less(b, a)
                    /\ ret.val = 0 <=> SameContent(a, b)

\* a static string that is a proper prefix of an allocated one compared less
C8_Witness ==
    /\ made = BothMade
    /\ call.op = "operator<"
    /\ a.type = stringValue /\ b.type = stringValue
    /\ ~a.allocated /\ b.allocated
    /\ LET x == StringContent(a)
           y == StringContent(b)
       IN  /\ ~x.null
           /\ Len(x.bytes) >= 1 /\ Len(x.bytes) < Len(y.bytes)
           /\ SubSeq(y.bytes, 1, Len(x.bytes)) = x.bytes
    /\ ret = Ok(TRUE)

\* a decimal numeral: digits only, and no zero in front of another digit
IsNumeral(d) ==
    /\ Len(d) >= 1
    /\ \A i \in 1..Len(d) : d[i] \in Ord["0"]..Ord["9"]
    /\ Len(d) > 1 => d[1] # Ord["0"]

RECURSIVE times10From(_, _, _, _)
times10From(x, i, carry, acc) ==
    IF i = 0 THEN [val |-> acc, carry |-> carry]
    ELSE LET t == x[i] * 10 + carry
         IN  times10From(x, i - 1, t \div LimbBase, <<t % LimbBase>> \o acc)

\* the number a numeral denotes, in 64 bits, and whether it needs more
RECURSIVE numberFrom(_, _, _)
numberFrom(d, i, acc) ==
    IF i > Len(d) THEN acc
    ELSE LET m == times10From(acc.val, 4, d[i] - Ord["0"], <<>>)
         IN  IF m.carry = 0
             THEN numberFrom(d, i + 1, [acc EXCEPT !.val = m.val])
             ELSE numberFrom(d, i + 1, [val |-> m.val, overflow |-> TRUE])

NumberOf(d) == numberFrom(d, 1, [val |-> Limb0, overflow |-> FALSE])

\* C9: valueToString of a signed or unsigned 64-bit integer returns its
\* canonical decimal numeral: digits only, one leading '-' exactly for the
\* negative values (the least int64 included), no leading zeros, denoting
\* the argument; the 25-byte buffer is never overrun.
C9_CanonicalDecimal ==
    /\ call.op = "valueToString(uint64_t)" =>
          /\ ret.kind = "ok"
          /\ IsNumeral(ret.val)
          /\ NumberOf(ret.val) = [val |-> call.arg, overflow |-> FALSE]
          /\ Len(ret.val) + 1 <= 25
    /\ call.op = "valueToString(int64_t)" =>
          /\ ret.kind = "ok"
          /\ Len(ret.val) + 1 <= 25
          /\ LET negative == call.arg[1] >= Pow2(15)
                 digits == IF ret.val[1] = Ord["-"] THEN Tail(ret.val)
                           ELSE ret.val
                 n == NumberOf(digits)
             IN  /\ negative <=> ret.val[1] = Ord["-"]
                 /\ IsNumeral(digits)
                 /\ ~n.overflow
                 /\ IF negative
                    THEN LET back == Add64(n.val, call.arg)
                         IN  back.sum = Limb0 /\ back.carry = 1
                    ELSE n.val = call.arg

\* the least int64 was printed
C9_Witness ==
    /\ call.op = "valueToString(int64_t)"
    /\ call.arg = <<Pow2(15), 0, 0, 0>>
    /\ ret = Ok(Text(<<"-", "9", "2", "2", "3", "3", "7", "2", "0", "3", "6",
                       "8", "5", "4", "7", "7", "5", "8", "0", "8">>))

\* the token the claim gives for a double that is not finite
Token(cls, useSpecialFloats) ==
    CASE cls = "nan" /\ useSpecialFloats -> Text(<<"N", "a", "N">>)
      [] cls = "nan" /\ ~useSpecialFloats -> Text(<<"n", "u", "l", "l">>)
      [] cls = "pinf" /\ useSpecialFloats ->
            Text(<<"I", "n", "f", "i", "n", "i", "t", "y">>)
      [] cls = "pinf" /\ ~useSpecialFloats ->
            Text(<<"1", "e", "+", "9", "9", "9", "9">>)
      [] cls = "ninf" /\ useSpecialFloats ->
            Text(<<"-", "I", "n", "f", "i", "n", "i", "t", "y">>)
      [] cls = "ninf" /\ ~useSpecialFloats ->
            Text(<<"-", "1", "e", "+", "9", "9", "9", "9">>)

\* C10: for a double that is not finite valueToString returns NaN, Infinity
\* or -Infinity when useSpecialFloats is set and null, 1e+9999 or -1e+9999
\* when it is not; the overload without the flag, and through it asString on
\* a real Value, returns the latter.
C10_NonFiniteTokens ==
    /\ (call.op = "valueToString(double, bool, unsigned, PrecisionType)"
          /\ call.arg.value.cls # "fin") =>
             ret = Ok(Token(call.arg.value.cls, call.arg.useSpecialFloats))
    /\ (call.op = "valueToString(double, unsigned, PrecisionType)"
          /\ call.arg.value.cls # "fin") =>
             ret = Ok(Token(call.arg.value.cls, FALSE))
    /\ (call.op = "asString" /\ a.type = realValue /\ a.v_real.cls # "fin") =>
             ret = Ok(Token(a.v_real.cls, FALSE))

\* negative infinity was printed without the special tokens
C10_Witness ==
    /\ call.op = "valueToString(double, unsigned, PrecisionType)"
    /\ call.arg.value.cls = "ninf"
    /\ ret = Ok(Text(<<"-", "1", "e", "+", "9", "9", "9", "9">>))

\* C11: for every finite double, every precision (0 included) and both
\* precision types the text valueToString returns holds a '.' or an 'e'.
C11_PointOrExponent ==
    (/\ call.op \in {"valueToString(double, unsigned, PrecisionType)",
                     "valueToString(double, bool, unsigned, PrecisionType)"}
     /\ call.arg.value.cls = "fin") =>
        /\ ret.kind = "ok"
        /\ Contains(ret.val, Ord["."]) \/ Contains(ret.val, Ord["e"])

\* the first n bytes of x come before those of y, byte by byte
BytesBefore(x, y, n) ==
    \E i \in 1 .. n : x[i] < y[i] /\ \A j \in 1 .. (i - 1) : x[j] = y[j]

BytesSame(x, y, n) == \A i \in 1 .. n : x[i] = y[i]

NameKeys(x, y) == ~x.cstr.null /\ ~y.cstr.null

IndexKeys(x, y) == x.cstr.null /\ y.cstr.null

\* the order the claim gives to two name-keys
NameBefore(x, y) ==
    LET n == IF x.length < y.length THEN x.length ELSE y.length
    IN  \/ BytesBefore(x.cstr.mem, y.cstr.mem, n)
        \/ (BytesSame(x.cstr.mem, y.cstr.mem, n) /\ x.length < y.length)

\* two name-keys of the same length and the same bytes
SameName(x, y) ==
    x.length = y.length /\ BytesSame(x.cstr.mem, y.cstr.mem, x.length)

\* C12: for two name-keys a < b holds iff the bytes of a come before those
\* of b over the shorter length, or they agree there and a is shorter (a
\* proper prefix comes first); for two index-keys a < b iff a's index is
\* the smaller.
C12_KeyOrder ==
    (made = TwoKeys /\ call.op = "CZString::operator<") =>
        /\ NameKeys(a, b) => ret = Ok(NameBefore(a, b))
        /\ IndexKeys(a, b) => ret = Ok(m_index(a) < m_index(b))

\* C13: for two name-keys neither a < b nor b < a holds iff a == b, that
\* is iff they have the same length and the same bytes, so the member map
\* takes no two distinct names for one key.
C13_KeysUnique ==
    (made = TwoKeys /\ call.op = "CZString::operator==" /\ NameKeys(a, b)) =>
        /\ ret = Ok(SameName(a, b))
        /\ (CZStringLess(a, b) = Ok(FALSE) /\ CZStringLess(b, a) = Ok(FALSE))
              <=> ret = Ok(TRUE)

\* C14: a copy of a name-key, made by the copy constructor or by copy
\* assignment, owns a buffer of its own with the same bytes and length and
\* policy duplicate when the source's policy is duplicate or
\* duplicateOnCopy, and borrows the source's pointer with policy
\* noDuplication when the source's policy is noDuplication.
C14_CopyOwnsPrivateBuffer ==
    LET copied == call.op = "CZString(CZString const&)"
        src == IF copied THEN a ELSE b
        dst == IF copied THEN b ELSE a
    IN  (/\ made = TwoKeys
         /\ call.op \in {"CZString(CZString const&)", "operator=(const CZString&)"}
         /\ ~src.cstr.null) =>
            /\ src.policy \in {duplicate, duplicateOnCopy} =>
                  /\ ~dst.cstr.null
                  /\ dst.cstr.addr # src.cstr.addr
                  /\ dst.cstr.addr \in heap
                  /\ dst.length = src.length
                  /\ BytesSame(dst.cstr.mem, src.cstr.mem, src.length)
                  /\ dst.policy = duplicate
            /\ src.policy = noDuplication =>
                  /\ dst.cstr = src.cstr
                  /\ dst.policy = noDuplication

\* C17: a key or a duplicated string of more than 2^30-1 bytes is cut to
\* 2^30-1 bytes without an error, and one of at most 2^30-1 bytes keeps its
\* length.
C17_TruncatedAtCap ==
    LET cap == 1073741823
        kept(n) == IF n > cap THEN cap ELSE n
    IN  /\ (call.op = "CZString(str, length, policy)" /\ made = NotMade) =>
              ret.kind = "ok" /\ ret.val.length = kept(call.arg.length)
        /\ (call.op = "CZString(str, length, policy)" /\ made = OneKey) =>
              a.length = kept(Len(call.arg[1]))
        /\ call.op = "duplicateStringValue" => ret = Ok(kept(call.arg))
        /\ call.op = "duplicateAndPrefixStringValue" => ret = Ok(kept(call.arg))

\* C15: after a Value s is moved into a Value d, by the move constructor or
\* by move assignment into a d of any earlier content, d holds the variant,
\* payload, comments and offsets that s had, and s is a null Value.
C15_MovedFromIsNull ==
    call.op \in {"Value(Value&&)", "operator=(Value&&)"} =>
        /\ b = made.in[1]
        /\ type(a) = nullValue
        /\ ~OwnsPayload(a)

\* C19: Comments::set with a slot that is not valid raises a logic error and
\* leaves the comments as they were; with a valid slot, has(slot) is true
\* exactly when the comment is not empty, get(slot) returns the comment, and
\* the other two slots are as before.
C19_SetCommentChecked ==
    call.op = "Comments::set" =>
        LET slot == call.arg.slot
            comment == call.arg.comment
            before == call.arg.before
        IN  IF ~SlotInRange(slot)
            THEN ret = LogicError /\ a.comments = before
            ELSE /\ CommentsHas(a.comments, slot) = Ok(comment # <<>>)
                 /\ CommentsGet(a.comments, slot) = Ok(comment)
                 /\ \A other \in (0 .. (numberOfCommentPlacement - 1)) \ {slot} :
                        CommentsGet(a.comments, other) = CommentsGet(before, other)

\* what swapPayload exchanges, and what only swap exchanges
PayloadOf(v) == <<v.type, v.allocated, v.v_uint, v.v_real, v.v_bool,
                  v.v_string, v.v_map, v.v_ptr>>
MetaOf(v) == <<v.comments, v.start, v.limit>>

\* the blocks of the free store the two Values own
OwnedBlocks == {v.v_ptr : v \in {x \in {a, b} : OwnsPayload(x)}}

\* C20: swapPayload exchanges the variant tag, the allocated flag and the
\* payload of two Values and leaves the comments and offsets of each in
\* place; swap exchanges the comments and offsets as well; neither allocates
\* or releases a payload, and applying either twice restores both Values.
C20_SwapsExchange ==
    call.op \in {"swapPayload", "swap"} =>
        LET a0 == made.in[1]
            b0 == made.in[2]
        IN  /\ heap = made.in[3]
            /\ OwnedBlocks = {v.v_ptr : v \in {x \in {a0, b0} : OwnsPayload(x)}}
            /\ call.arg = 2 => a = a0 /\ b = b0
            /\ (call.arg = 1 /\ call.op = "swapPayload") =>
                    /\ PayloadOf(a) = PayloadOf(b0) /\ PayloadOf(b) = PayloadOf(a0)
                    /\ MetaOf(a) = MetaOf(a0) /\ MetaOf(b) = MetaOf(b0)
            /\ (call.arg = 1 /\ call.op = "swap") => a = b0 /\ b = a0

\* swapPayload has run twice on a string Value with a comment that owns its
\* bytes and a Value of another variant with another start offset
C20_Witness ==
    /\ call.op = "swapPayload" /\ call.arg = 2
    /\ OwnsPayload(made.in[1]) /\ ~made.in[1].comments.null
    /\ type(made.in[2]) # type(made.in[1])
    /\ made.in[2].start # made.in[1].start

\* C18: a string-taking constructor given a null pointer raises a logic
\* error, so no Value was built from a null pointer, no string Value holds a
\* null pointer, and asString and asCString never meet a null string payload.
C18_NullSourceRaises ==
    /\ made.ctor \in {"Value(const char*)", "Value(StaticString)"} => ~made.in.null
    /\ (call.op \in {"Value(const char*)", "Value(StaticString)"}
            /\ made.ctor = NotMade.ctor) => ret = LogicError
    /\ (made.ctor # NotMade.ctor /\ type(a) = stringValue) => ~a.v_string.null

\* the indexes of the keys of a member map
IndexesOf(map) == {CZStringIndex(map[i].key) : i \in 1 .. Len(map)}

\* C16: size() of an array is one plus the highest index among its members,
\* whatever the number of members, and 0 without members; size() of an
\* object is the number of its members; size() of a null, int, uint, real,
\* bool or string Value is 0.
C16_SizeOfContainers ==
    call.op = "size" =>
        CASE type(a) = arrayValue ->
                IF a.v_map = <<>> THEN ret = Ok(0)
                ELSE \E top \in IndexesOf(a.v_map) :
                        /\ \A i \in IndexesOf(a.v_map) : i <= top
                        /\ ret = Ok(top + 1)
          [] type(a) = objectValue -> ret = Ok(Len(a.v_map))
          [] type(a) \in {nullValue, intValue, uintValue, realValue, boolValue,
                          stringValue} -> ret = Ok(0)
          [] OTHER -> TRUE

\* C21: operator== reuses the less-than logic: for two Values of the same
\* variant among int, uint, real, bool and string, a == b is the result of
\* a < b, so a == a is false, and a != b is the negation of a == b; two null
\* Values are equal, and Values of different variants are not.
C21_EqualIsLess ==
    made = BothMade =>
        LET same == type(a) = type(b)
            ordered == type(a) \in {intValue, uintValue, realValue, boolValue,
                                    stringValue}
        IN  /\ (call.op = "operator==" /\ same /\ ordered) => ret = Ok(Less(a, b))
            /\ (call.op = "operator!=" /\ same /\ ordered) => ret = Ok(~Less(a, b))
            /\ ordered => ~Equal(a, a) /\ NotEqual(a, a)
            /\ (call.op = "operator==" /\ same /\ type(a) = nullValue) => ret = Ok(TRUE)
            /\ (call.op = "operator==" /\ ~same) => ret = Ok(FALSE)
            /\ (call.op = "operator!=" /\ ~same) => ret = Ok(TRUE)

\* two int Values of the same content were compared with ==, and two int
\* Values of which the first is smaller would be equal
C21_Witness ==
    /\ made = BothMade
    /\ call.op = "operator=="
    /\ type(a) = intValue /\ type(b) = intValue
    /\ v_int(a) = v_int(b) /\ ret = Ok(FALSE)
    /\ Equal(ValueOfInt32(0).val, a) = (0 < v_int(a))

\* decimal digits with exactly one '.', not the first and not the last
DigitsAroundPoint(buffer) ==
    /\ Cardinality({i \in 1 .. Len(buffer) : buffer[i] = Ord["."]}) = 1
    /\ buffer[1] # Ord["."]
    /\ buffer[Len(buffer)] # Ord["."]

PointOf(buffer) == CHOOSE i \in 1 .. Len(buffer) : buffer[i] = Ord["."]

\* C22: on decimal digits with exactly one '.', neither first nor last,
\* fixZerosInTheEnd returns a new end within the sequence; what is cut off
\* are '0' characters only; the integer part is kept whole; and with a
\* non-zero precision the '.' and at least one digit after it are kept.
C22_OnlyTrailingZeros ==
    (call.op = "fixZerosInTheEnd" /\ DigitsAroundPoint(made.in)) =>
        LET buffer == made.in
            end == ret.val
        IN  /\ end \in 0 .. Len(buffer)
            /\ \A i \in (end + 1) .. Len(buffer) : buffer[i] = Ord["0"]
            /\ end >= PointOf(buffer) - 1
            /\ call.arg # 0 => end >= PointOf(buffer) + 1

\* C23: under every sequence of CZString operations no buffer is referred to
\* by two live keys with policy duplicate, every live block of the free
\* store is owned by a live key (an overwritten key has released its
\* buffer), and the destructors release every block once and release
\* nothing that no key owned.
C23_KeyBuffersSafe ==
    /\ (made = TwoKeys /\ CZStringDeletes(a) /\ CZStringDeletes(b)) =>
            a.cstr.addr # b.cstr.addr
    /\ made \in {OneKey, TwoKeys} => heap \subseteq (OwnedBlock(a) \cup OwnedBlock(b))
    /\ call.op = "~CZString" => ret.val.bad = {} /\ ret.val.left = {}
    /\ \A k \in {a, b} : OwnedBlock(k) \cap {BufferOfA, BufferOfB} = {}

\* C24: for every Value isInt() implies isInt64(), isUInt() implies
\* isUInt64(), and each of isInt(), isUInt(), isInt64() and isUInt64()
\* implies isIntegral(), negative int Values and negative whole real Values
\* included.
C24_PredicatesNested ==
    made.ctor # NotMade.ctor =>
        /\ isInt(a) => isInt64(a)
        /\ isUInt(a) => isUInt64(a)
        /\ (isInt(a) \/ isUInt(a) \/ isInt64(a) \/ isUInt64(a)) => isIntegral(a)

===========================================================================
